---- MODULE Spec2Model ----
(***************************************************************************)
(* Model of the aibtc project registry: the versioned store (getData,      *)
(* saveData, saveRetry), the interactive request handlers of items.js,     *)
(* the reorder handler, and the background scans of _tasks.js.             *)
(*                                                                         *)
(* One KV key holds the registry blob.  Every invocation (request or scan) *)
(* is a process with its own in-memory copy `data` of the blob; the only   *)
(* shared state is the KV store.  Every `await` on the KV store is a point *)
(* where other invocations may run, so saveData is two steps: the read of  *)
(* the current version and the put.                                        *)
(*                                                                         *)
(* The specifications share the variables: Spec (the store under          *)
(* concurrent requests, a scan and a reorder; FairSpec adds fairness of    *)
(* the scan), SpecRefresh (refreshStaleGithubData, the listing and other   *)
(* writers), SpecWeb (discoverWebsites and other writers), SpecMatch       *)
(* (matchMention on bounded inputs), SpecMention, SpecIncremental and      *)
(* SpecReset (scanForMentions: concurrent scans, incremental scans only,   *)
(* resets in succession), SpecPut (the actions of _handlePut), SpecOrch    *)
(* (the orchestrator of refresh.js under its time budget), SpecInput (the  *)
(* validation of create and update requests), SpecReadme                   *)
(* (extractUrlFromReadme on bounded texts), SpecRefreshers (overlapping    *)
(* refresh runs), SpecGh (the contributor and event scans with their       *)
(* cooldowns), SpecLoad (getData on registries stored at every schema      *)
(* version) and SpecGoals (add_goal and complete_goal in succession).      *)
(***************************************************************************)
EXTENDS Integers, Sequences, FiniteSets, TLC

VARIABLES
    kv,        \* ROADMAP_KV value under KV_KEY 'roadmap:items' (Null when absent)
    pc,        \* per invocation: position in its handler
    data,      \* per invocation: the in-memory registry it loaded and changed
    loaded,    \* per invocation: the writeVersion captured by its getData
    attempt,   \* per scan: saveRetry's loop counter
    result,    \* per invocation: the answer given to the caller / the scan's outcome
    reqs,      \* interactive requests started so far
    task,      \* per background task: its local variables
    events,    \* the audit log written by recordEvent
    now,       \* the wall clock, in the unit its specification names
    listed,    \* id and status of the records of the last listing response
    scanState, \* ROADMAP_KV value under GITHUB_SCAN_KEY (Null when absent)
    archive,   \* the archived messages getArchivedMessages returns
    feed,      \* the entries the activity API answers with
    scanMeta,  \* ROADMAP_KV value under MENTION_SCAN_KEY (Null when absent)
    probe      \* a record, a message text and what matchMention answered

vars == <<kv, pc, data, loaded, attempt, result, reqs, task, events, now, listed,
          scanState, archive, feed, scanMeta, probe>>

\* the mention scan's feed and bookkeeping, and the matcher's probe
mentionFrame == <<feed, scanMeta, probe>>

\* the KV entries beside the registry
scanFrame == <<scanState, archive, mentionFrame>>

\* what the store's invocations neither read nor write
storeFrame == <<scanFrame, task, events, now, listed>>

----------------------------------------------------------------------------
(* Bounds of the model *)

\* requests started in one behaviour: interactive requests (create, update,
\* delete) and invocations of the refresh
MaxRequests == 3

----------------------------------------------------------------------------
(* Values *)

\* JavaScript null / a missing KV key
Null == [null |-> TRUE]

Writers == {"w1", "w2"}
Scans == {"s1"}
Reorders == {"r1"}
Procs == Writers \cup Scans \cup Reorders

\* the account a background scan resolves and adds as contributor
ScanAgent == "gh"

\* the record ids of the store specification
ItemIds == {1}

\* saveRetry(env, data, maxRetries = 3)
maxRetries == 3

----------------------------------------------------------------------------
(* Sequence helpers *)

Range(s) == {s[i] : i \in DOMAIN s}

RemoveAt(s, i) == SubSeq(s, 1, i - 1) \o SubSeq(s, i + 1, Len(s))

IdsOf(items) == {items[i].id : i \in DOMAIN items}

\* items.findIndex(i => i.id === id), 0 standing for -1
FindIndex(items, id) ==
    IF \E i \in DOMAIN items : items[i].id = id
    THEN CHOOSE i \in DOMAIN items :
            items[i].id = id /\ \A j \in 1..(i - 1) : items[j].id # id
    ELSE 0

----------------------------------------------------------------------------
(* The versioned store *)

\* `x?.writeVersion || 0`
WriteVersionOf(blob) ==
    IF blob = Null \/ "writeVersion" \notin DOMAIN blob THEN 0 ELSE blob.writeVersion

Has(r, f) == f \in DOMAIN r

\* `!x` for a field holding an object, null or nothing
Falsy(r, f) == ~Has(r, f) \/ r[f] = Null

\* r with field f set to v (added when missing)
SetField(r, f, v) == [g \in (DOMAIN r) \cup {f} |-> IF g = f THEN v ELSE r[g]]

\* v1..v4 -> v5: normalise records missing the newer fields
MigrateItemV5(item) ==
    LET a == IF Has(item, "claimedBy") THEN item ELSE SetField(item, "claimedBy", Null)
        b == IF Has(a, "deliverables") THEN a ELSE SetField(a, "deliverables", <<>>)
        c == IF Has(b, "ratings") THEN b ELSE SetField(b, "ratings", <<>>)
        d == IF Falsy(c, "reputation") THEN SetField(c, "reputation", [average |-> 0, count |-> 0]) ELSE c
        e == IF Has(d, "goals") THEN d ELSE SetField(d, "goals", <<>>)
        f == IF Falsy(e, "mentions") THEN SetField(e, "mentions", [count |-> 0]) ELSE e
    IN  f

\* v5 -> v6: explicit leader, taken from claimedBy, else founder, else null
MigrateItemV6(item) ==
    IF ~Falsy(item, "leader") THEN item
    ELSE LET source == IF ~Falsy(item, "claimedBy") THEN item.claimedBy
                       ELSE IF ~Falsy(item, "founder") THEN item.founder
                       ELSE Null
         IN  IF source # Null
             THEN SetField(item, "leader", [btcAddress |-> source.btcAddress])
             ELSE SetField(item, "leader", Null)

\* v6 -> v7: searchTerms
MigrateItemV7(item) ==
    IF Has(item, "searchTerms") THEN item ELSE SetField(item, "searchTerms", <<>>)

\* `item.githubData?.homepage`, Null when there is none
HomepageOf(item) ==
    IF Falsy(item, "githubData") \/ Falsy(item.githubData, "homepage") THEN Null
    ELSE item.githubData.homepage

\* v7 -> v8: website, claimed from the snapshot's homepage when there is one
MigrateItemV8(item) ==
    IF Has(item, "website") THEN item
    ELSE IF HomepageOf(item) # Null
         THEN SetField(item, "website", [url |-> HomepageOf(item), source |-> "homepage"])
         ELSE SetField(item, "website", Null)

\* v8/v9 -> v10: drop every claim not sourced from the homepage
MigrateItemV10(item) ==
    IF ~Falsy(item, "website") /\ item.website.source # "homepage"
    THEN SetField(item, "website", Null)
    ELSE item

\* the migration blocks of getData: `if (data.version < n) { ...; data.version = n }`
MigrateV5(d) ==
    IF d.version < 5
    THEN [d EXCEPT !.items = [i \in DOMAIN d.items |-> MigrateItemV5(d.items[i])],
                   !.version = 5]
    ELSE d

MigrateV6(d) ==
    IF d.version < 6
    THEN [d EXCEPT !.items = [i \in DOMAIN d.items |-> MigrateItemV6(d.items[i])],
                   !.version = 6]
    ELSE d

MigrateV7(d) ==
    IF d.version < 7
    THEN [d EXCEPT !.items = [i \in DOMAIN d.items |-> MigrateItemV7(d.items[i])],
                   !.version = 7]
    ELSE d

MigrateV8(d) ==
    IF d.version < 8
    THEN [d EXCEPT !.items = [i \in DOMAIN d.items |-> MigrateItemV8(d.items[i])],
                   !.version = 8]
    ELSE d

\* a load without the last migration block
MigrateV10Skipped(d) == d

MigrateV10(d) ==
    IF d.version < 10
    THEN [d EXCEPT !.items = [i \in DOMAIN d.items |-> MigrateItemV10(d.items[i])],
                   !.version = 10]
    ELSE d

\* getData: default blob, writeVersion initialised when missing, lazy migrations
getData(raw) ==
    LET d0 == IF raw = Null THEN [version |-> 1, items |-> <<>>] ELSE raw
        d1 == IF Has(d0, "writeVersion") THEN d0 ELSE SetField(d0, "writeVersion", 0)
    IN  MigrateV10(MigrateV8(MigrateV7(MigrateV6(MigrateV5(d1)))))

\* saveData's test `currentVersion !== expectedVersion`
SaveConflict(d, current) == WriteVersionOf(current) # WriteVersionOf(d)

\* a saveData that forgets the increment
SaveBlobSameVersion(d) == d

\* the blob saveData puts: data with writeVersion = expectedVersion + 1
SaveBlob(d) == [d EXCEPT !.writeVersion = WriteVersionOf(d) + 1]

\* addContributor(item, agent)
addContributor(item, agent) ==
    IF agent \in item.contributors THEN item
    ELSE [item EXCEPT !.contributors = @ \cup {agent}]

----------------------------------------------------------------------------
(* Interactive requests of items.js: create, update, delete *)

NewItem(id, agent) == [id |-> id, contributors |-> {agent}]

\* _handlePost: getData, push the new item; saveData follows
WriterCreate(w, id) ==
    /\ pc[w] = "idle" /\ reqs < MaxRequests
    /\ LET d == getData(kv) IN
        /\ id \notin IdsOf(d.items)
        /\ data' = [data EXCEPT ![w] = [d EXCEPT !.items = Append(@, NewItem(id, w))]]
        /\ loaded' = [loaded EXCEPT ![w] = d.writeVersion]
    /\ pc' = [pc EXCEPT ![w] = "check"]
    /\ result' = [result EXCEPT ![w] = "pending"]
    /\ reqs' = reqs + 1
    /\ UNCHANGED <<kv, attempt>>
    /\ UNCHANGED storeFrame

\* _handlePut, standard field update: getData, findIndex (404 when absent),
\* addContributor(item, agent); saveData follows
WriterUpdate(w, id) ==
    /\ pc[w] = "idle" /\ reqs < MaxRequests
    /\ LET d == getData(kv)
           idx == FindIndex(d.items, id) IN
        IF idx = 0
        THEN /\ result' = [result EXCEPT ![w] = "404"]
             /\ UNCHANGED <<pc, data, loaded>>
        ELSE /\ data' = [data EXCEPT ![w] =
                    [d EXCEPT !.items[idx] = addContributor(@, w)]]
             /\ loaded' = [loaded EXCEPT ![w] = d.writeVersion]
             /\ pc' = [pc EXCEPT ![w] = "check"]
             /\ result' = [result EXCEPT ![w] = "pending"]
    /\ reqs' = reqs + 1
    /\ UNCHANGED <<kv, attempt>>
    /\ UNCHANGED storeFrame

\* _handleDelete: getData, findIndex (404 when absent), splice; saveData follows
WriterDelete(w, id) ==
    /\ pc[w] = "idle" /\ reqs < MaxRequests
    /\ LET d == getData(kv)
           idx == FindIndex(d.items, id) IN
        IF idx = 0
        THEN /\ result' = [result EXCEPT ![w] = "404"]
             /\ UNCHANGED <<pc, data, loaded>>
        ELSE /\ data' = [data EXCEPT ![w] = [d EXCEPT !.items = RemoveAt(@, idx)]]
             /\ loaded' = [loaded EXCEPT ![w] = d.writeVersion]
             /\ pc' = [pc EXCEPT ![w] = "check"]
             /\ result' = [result EXCEPT ![w] = "pending"]
    /\ reqs' = reqs + 1
    /\ UNCHANGED <<kv, attempt>>
    /\ UNCHANGED storeFrame

\* saveData, first half: read the stored version and compare.  A mismatch
\* throws ConcurrencyError, which handleConcurrencyError answers with 409.
WriterCheck(w) ==
    /\ pc[w] = "check"
    /\ IF SaveConflict(data[w], kv)
       THEN /\ pc' = [pc EXCEPT ![w] = "idle"]
            /\ result' = [result EXCEPT ![w] = "409"]
            /\ data' = [data EXCEPT ![w] = Null]
       ELSE /\ pc' = [pc EXCEPT ![w] = "put"]
            /\ UNCHANGED <<result, data>>
    /\ UNCHANGED <<kv, loaded, attempt, reqs>>
    /\ UNCHANGED storeFrame

\* saveData, second half: put the blob; the handler then answers 200/201
WriterPut(w) ==
    /\ pc[w] = "put"
    /\ kv' = SaveBlob(data[w])
    /\ data' = [data EXCEPT ![w] = Null]
    /\ pc' = [pc EXCEPT ![w] = "idle"]
    /\ result' = [result EXCEPT ![w] = "200"]
    /\ UNCHANGED <<loaded, attempt, reqs>>
    /\ UNCHANGED storeFrame

----------------------------------------------------------------------------
(* A background scan: load, change the in-memory copy, saveRetry *)

\* scanGithubContributors: getData, addContributor on every record;
\* `if (changed) await saveRetry(env, data)`
ScanLoad(s) ==
    /\ pc[s] = "idle"
    /\ LET d == getData(kv)
           items2 == [i \in DOMAIN d.items |-> addContributor(d.items[i], ScanAgent)]
           changed == items2 # d.items IN
        /\ data' = [data EXCEPT ![s] = [d EXCEPT !.items = items2]]
        /\ loaded' = [loaded EXCEPT ![s] = d.writeVersion]
        /\ IF changed
           THEN /\ pc' = [pc EXCEPT ![s] = "check"]
                /\ result' = [result EXCEPT ![s] = "pending"]
           ELSE /\ pc' = [pc EXCEPT ![s] = "done"]
                /\ result' = [result EXCEPT ![s] = "nochange"]
    /\ attempt' = [attempt EXCEPT ![s] = 1]
    /\ UNCHANGED <<kv, reqs>>
    /\ UNCHANGED storeFrame

\* a saveRetry that never gives up
LastAttemptNever(a) == FALSE

\* saveRetry's `if (attempt === maxRetries) throw err`
LastAttempt(a) == a = maxRetries

\* saveRetry: saveData's version test inside the try; on ConcurrencyError
\* rethrow at the last attempt, otherwise back off
ScanCheck(s) ==
    /\ pc[s] = "check"
    /\ IF SaveConflict(data[s], kv)
       THEN IF LastAttempt(attempt[s])
            THEN /\ pc' = [pc EXCEPT ![s] = "done"]
                 /\ result' = [result EXCEPT ![s] = "dropped"]
            ELSE /\ pc' = [pc EXCEPT ![s] = "backoff"]
                 /\ UNCHANGED result
       ELSE /\ pc' = [pc EXCEPT ![s] = "put"]
            /\ UNCHANGED result
    /\ UNCHANGED <<kv, data, loaded, attempt, reqs>>
    /\ UNCHANGED storeFrame

\* saveRetry after the backoff: `data.writeVersion = fresh?.writeVersion || 0`
ScanReread(s) ==
    /\ pc[s] = "backoff"
    /\ data' = [data EXCEPT ![s].writeVersion = WriteVersionOf(kv)]
    /\ attempt' = [attempt EXCEPT ![s] = @ + 1]
    /\ pc' = [pc EXCEPT ![s] = "check"]
    /\ UNCHANGED <<kv, loaded, result, reqs>>
    /\ UNCHANGED storeFrame

\* saveData's put inside saveRetry, then `return`
ScanPut(s) ==
    /\ pc[s] = "put"
    /\ kv' = SaveBlob(data[s])
    /\ data' = [data EXCEPT ![s] = Null]
    /\ pc' = [pc EXCEPT ![s] = "done"]
    /\ result' = [result EXCEPT ![s] = "saved"]
    /\ UNCHANGED <<loaded, attempt, reqs>>
    /\ UNCHANGED storeFrame

----------------------------------------------------------------------------
(* The reorder request *)

\* reordered: the ids of orderedIds that exist, in that order, then the rest
Reordered(items, orderedIds) ==
    LET front == SelectSeq(orderedIds, LAMBDA id : id \in IdsOf(items))
        first == [k \in DOMAIN front |-> items[FindIndex(items, front[k])]]
        rest == SelectSeq(items, LAMBDA it : it.id \notin Range(front))
    IN  first \o rest

\* onRequestPost (reorder): raw get, no getData
ReorderRead(r, orderedIds) ==
    /\ pc[r] = "idle"
    /\ LET d == IF kv = Null THEN [version |-> 1, items |-> <<>>] ELSE kv IN
        /\ data' = [data EXCEPT ![r] = [d EXCEPT !.items = Reordered(d.items, orderedIds)]]
        /\ loaded' = [loaded EXCEPT ![r] = WriteVersionOf(d)]
    /\ pc' = [pc EXCEPT ![r] = "put"]
    /\ result' = [result EXCEPT ![r] = "pending"]
    /\ UNCHANGED <<kv, attempt, reqs>>
    /\ UNCHANGED storeFrame

\* onRequestPost (reorder): put without version test or increment
ReorderPut(r) ==
    /\ pc[r] = "put"
    /\ kv' = data[r]
    /\ pc' = [pc EXCEPT ![r] = "done"]
    /\ result' = [result EXCEPT ![r] = "200"]
    /\ UNCHANGED <<data, loaded, attempt, reqs>>
    /\ UNCHANGED storeFrame

----------------------------------------------------------------------------
(* Specification of the store under concurrent invocations *)

InitialBlob ==
    [version |-> 10, writeVersion |-> 0,
     items |-> <<[id |-> 1, contributors |-> {}]>>]

Init ==
    /\ kv \in {Null, InitialBlob}
    /\ pc = [p \in Procs |-> "idle"]
    /\ data = [p \in Procs |-> Null]
    /\ loaded = [p \in Procs |-> 0]
    /\ attempt = [p \in Procs |-> 0]
    /\ result = [p \in Procs |-> "none"]
    /\ reqs = 0
    /\ scanState = Null
    /\ archive = <<>>
    /\ task = [p \in Procs |-> Null]
    /\ events = <<>>
    /\ now = 1
    /\ listed = <<>>
    /\ feed = <<>>
    /\ scanMeta = Null
    /\ probe = Null

WriterStep(w) ==
    \/ \E id \in ItemIds : WriterCreate(w, id)
    \/ \E id \in ItemIds : WriterUpdate(w, id)
    \/ \E id \in ItemIds : WriterDelete(w, id)
    \/ WriterCheck(w)
    \/ WriterPut(w)

ScanStep(s) ==
    \/ ScanLoad(s)
    \/ ScanCheck(s)
    \/ ScanReread(s)
    \/ ScanPut(s)

ReorderStep(r) ==
    \/ \E id \in ItemIds : ReorderRead(r, <<id>>)
    \/ ReorderPut(r)

Next ==
    \/ \E w \in Writers : WriterStep(w)
    \/ \E s \in Scans : ScanStep(s)
    \/ \E r \in Reorders : ReorderStep(r)

Spec == Init /\ [][Next]_vars

\* the scheduler resumes a scan whenever its pending await can complete
FairSpec == Spec /\ \A s \in Scans : WF_vars(ScanStep(s))

----------------------------------------------------------------------------
(* Claims about the versioned store *)

ItemsOf(blob) == IF blob = Null THEN <<>> ELSE blob.items

\* the step is p's KV put of the registry key
KvPutBy(p) == pc[p] = "put" /\ pc'[p] # "put"

\* C1: two invocations that loaded the same writeVersion and both called
\* saveData are never both answered with success
C1_ExactlyOneSaveSucceeds ==
    \A w1, w2 \in Writers :
        (w1 # w2 /\ result[w1] = "200" /\ result[w2] = "200")
            => loaded[w1] # loaded[w2]

\* C2: saveData with a captured writeVersion that differs from the stored one
\* raises ConcurrencyError and puts nothing; when they match it puts the
\* registry with writeVersion = captured version + 1
C2_SaveDataContract ==
    [][\A p \in Writers \cup Scans :
        /\ (pc[p] = "check" /\ pc'[p] # "check") =>
              IF WriteVersionOf(kv) # WriteVersionOf(data[p])
              THEN /\ kv' = kv
                   /\ pc'[p] # "put"
                   /\ p \in Writers => result'[p] = "409"
              ELSE pc'[p] = "put"
        /\ KvPutBy(p) =>
              /\ kv'.items = data[p].items
              /\ kv'.writeVersion = WriteVersionOf(data[p]) + 1
              /\ p \in Writers => kv'.writeVersion = loaded[p] + 1]_vars

\* C2 witness: one save was refused with a conflict and another one stored
C2_Witness ==
    \E w1, w2 \in Writers :
        result[w1] = "409" /\ result[w2] = "200" /\ WriteVersionOf(kv) >= 1

\* C3: the stored writeVersion never decreases, and every put of the registry
\* key strictly increases it
C3_WriteVersionMonotonic ==
    [][/\ WriteVersionOf(kv') >= WriteVersionOf(kv)
       /\ (\E p \in Procs : KvPutBy(p)) => WriteVersionOf(kv') > WriteVersionOf(kv)]_vars

\* the scan's changes applied to a list of records
ScanDelta(items) == [i \in DOMAIN items |-> addContributor(items[i], ScanAgent)]

\* C4: a retried scan save that succeeds stores the scan's delta applied to the
\* registry that was current when it saved
C4_RetryKeepsOthersChanges ==
    [][\A s \in Scans :
        (KvPutBy(s) /\ attempt[s] > 1) => kv'.items = ScanDelta(ItemsOf(kv))]_vars

\* C5: saveRetry makes at most maxRetries attempts and ends; when every attempt
\* conflicted nothing of the scan's changes is in the stored registry
C5_SaveRetryBounded ==
    /\ [](\A s \in Scans :
            /\ attempt[s] <= 3
            /\ result[s] = "dropped" =>
                  /\ attempt[s] = 3
                  /\ \A i \in DOMAIN ItemsOf(kv) : ScanAgent \notin ItemsOf(kv)[i].contributors)
    /\ <>(\A s \in Scans : pc[s] = "done")

\* C5 witness: a scan gave up after its third conflict
C5_Witness == \E s \in Scans : result[s] = "dropped" /\ attempt[s] = 3

\* C6: an interactive request whose save conflicts is answered 409 and puts
\* nothing, and a request answered with success saved on the version it loaded
C6_ConflictSurfaced ==
    [][\A w \in Writers :
        /\ (pc[w] = "check" /\ result'[w] = "409") => kv' = kv
        /\ KvPutBy(w) => WriteVersionOf(kv) = loaded[w]]_vars

----------------------------------------------------------------------------
(* Status derivation and the repository refresh (refreshStaleGithubData)   *)
(*                                                                         *)
(* A record here is [id, githubUrl, githubData, status]: githubUrl is Null *)
(* (empty) or [type |-> repo | pr | issue]; githubData is Null, the bare   *)
(* not-found marker, or a snapshot whose fields may be missing.            *)

\* STALE_AFTER_MS, the unit of the clock
STALE_AFTER_MS == 1

\* fetchGithubData's `{ _notFound: true }`
NotFound == [_notFound |-> TRUE]

\* deriveStatus with the pull-request tests in the wrong order
deriveStatusClosedFirst(item) ==
    IF Falsy(item, "githubData") \/ ~Has(item.githubData, "type") THEN "todo"
    ELSE LET gd == item.githubData IN
         IF gd.type = "repo" THEN (IF gd.state = "archived" THEN "done" ELSE "in-progress")
         ELSE IF gd.type = "pr"
              THEN IF gd.state = "closed" THEN "blocked"
                   ELSE IF gd.merged THEN "done"
                   ELSE "in-progress"
         ELSE IF gd.state = "closed" THEN "done" ELSE "in-progress"

\* deriveStatus(item)
deriveStatus(item) ==
    IF Falsy(item, "githubData") \/ ~Has(item.githubData, "type") THEN "todo"
    ELSE LET gd == item.githubData IN
         IF gd.type = "repo" THEN (IF gd.state = "archived" THEN "done" ELSE "in-progress")
         ELSE IF gd.type = "pr"
              THEN IF gd.merged THEN "done"
                   ELSE IF gd.state = "closed" THEN "blocked"
                   ELSE "in-progress"
         ELSE IF gd.state = "closed" THEN "done" ELSE "in-progress"

\* what the repository service can answer for a URL: a failure (Null), a 404
\* (NotFound), or the kind's state and merged flag
ServiceAnswers(url) ==
    {Null, NotFound} \cup
    (IF url.type = "repo"
     THEN {[state |-> st, merged |-> FALSE] : st \in {"active", "archived"}}
     ELSE IF url.type = "pr"
     THEN {[state |-> "open", merged |-> FALSE],
           [state |-> "closed", merged |-> FALSE],
           [state |-> "closed", merged |-> TRUE]}
     ELSE {[state |-> st, merged |-> FALSE] : st \in {"open", "closed"}})

\* fetchGithubData(url): null on failure, the not-found marker on 404, else the
\* snapshot of the URL's kind stamped with the time of the fetch
fetchGithubData(url, answer, t) ==
    IF answer = Null \/ answer = NotFound THEN answer
    ELSE [type |-> url.type, state |-> answer.state, merged |-> answer.merged,
          fetchedAt |-> t]

\* `item.githubData?.fetchedAt ? ... : 0`
FetchedAtOf(item) ==
    IF Falsy(item, "githubData") \/ ~Has(item.githubData, "fetchedAt") THEN 0
    ELSE item.githubData.fetchedAt

\* `item.githubData?._notFoundCount || 0`
NotFoundCountOf(item) ==
    IF Falsy(item, "githubData") \/ ~Has(item.githubData, "_notFoundCount") THEN 0
    ELSE item.githubData._notFoundCount

\* `item.githubData?.state !== 'archived'`
StateNotArchived(item) ==
    IF Falsy(item, "githubData") \/ ~Has(item.githubData, "state") THEN TRUE
    ELSE item.githubData.state # "archived"

\* `{ ...item.githubData }`
SpreadGithubData(item) == IF Falsy(item, "githubData") THEN <<>> ELSE item.githubData

\* the loop's two `continue`s before the fetch
RefreshSkips(item, tnow) ==
    \/ Falsy(item, "githubUrl")
    \/ tnow - FetchedAtOf(item) < STALE_AFTER_MS

\* the not-found branch: returns <<item', events pushed>>
RefreshNotFound(item, tnow) ==
    LET fails == NotFoundCountOf(item) + 1 IN
    IF fails >= 3 /\ StateNotArchived(item)
    THEN LET gd == SetField(SetField(SetField(SpreadGithubData(item),
                        "state", "archived"), "_notFoundCount", fails), "fetchedAt", tnow)
             item2 == [item EXCEPT !.githubData = gd]
         IN  <<item2, <<[itemId |-> item.id, oldStatus |-> deriveStatus(item2),
                         newStatus |-> "done"]>> >>
    ELSE LET gd == SetField(SetField(SpreadGithubData(item),
                        "_notFoundCount", fails), "fetchedAt", tnow)
         IN  <<[item EXCEPT !.githubData = gd], <<>> >>

\* the branch for a fetched snapshot: returns <<item', events pushed>>
RefreshFresh(item, fresh) ==
    LET oldStatus == deriveStatus(item)
        item2 == [item EXCEPT !.githubData = fresh]
        newStatus == deriveStatus(item2)
    IN  <<item2,
          IF oldStatus # newStatus
          THEN <<[itemId |-> item.id, oldStatus |-> oldStatus, newStatus |-> newStatus]>>
          ELSE <<>> >>

Refreshers == {"g1"}

\* refreshStaleGithubData: getData, `now = Date.now()`; dt is the time that
\* passed since the previous step of the clock
RefreshStart(g, dt) ==
    /\ pc[g] = "idle" /\ reqs < MaxRequests
    /\ now' = now + dt
    /\ reqs' = reqs + 1
    /\ data' = [data EXCEPT ![g] = getData(kv)]
    /\ task' = [task EXCEPT ![g] = [now |-> now', idx |-> 1, changed |-> FALSE,
                                     autoCompleteEvents |-> <<>>]]
    /\ pc' = [pc EXCEPT ![g] = "loop"]
    /\ result' = [result EXCEPT ![g] = "pending"]
    /\ UNCHANGED <<kv, loaded, attempt, scanFrame, events, listed>>

\* one iteration of `for (const item of data.items)`, with the answer of
\* fetchGithubData when the record is fetched
RefreshItem(g, answer) ==
    /\ pc[g] = "loop"
    /\ task[g].idx <= Len(data[g].items)
    /\ LET t == task[g]
           item == data[g].items[t.idx]
           skip == RefreshSkips(item, t.now)
           fresh == IF skip THEN Null ELSE fetchGithubData(item.githubUrl, answer, t.now) IN
        /\ IF skip THEN answer = Null ELSE answer \in ServiceAnswers(item.githubUrl)
        /\ IF skip \/ fresh = Null
           THEN /\ task' = [task EXCEPT ![g].idx = @ + 1]
                /\ UNCHANGED data
           ELSE LET r == IF fresh = NotFound THEN RefreshNotFound(item, t.now)
                         ELSE RefreshFresh(item, fresh) IN
                /\ data' = [data EXCEPT ![g].items[t.idx] = r[1]]
                /\ task' = [task EXCEPT ![g].idx = @ + 1, ![g].changed = TRUE,
                              ![g].autoCompleteEvents = @ \o r[2]]
    /\ UNCHANGED <<kv, pc, loaded, attempt, result, reqs, scanFrame, events, now, listed>>

\* after the loop: `if (changed) { await saveRetry(env, data); ... }`
RefreshEnd(g) ==
    /\ pc[g] = "loop"
    /\ task[g].idx > Len(data[g].items)
    /\ IF task[g].changed
       THEN /\ pc' = [pc EXCEPT ![g] = "check"]
            /\ attempt' = [attempt EXCEPT ![g] = 1]
            /\ UNCHANGED <<result, data, task>>
       ELSE /\ pc' = [pc EXCEPT ![g] = "idle"]
            /\ result' = [result EXCEPT ![g] = "nochange"]
            /\ data' = [data EXCEPT ![g] = Null]
            /\ task' = [task EXCEPT ![g] = Null]
            /\ UNCHANGED attempt
    /\ UNCHANGED <<kv, loaded, reqs, scanFrame, events, now, listed>>

\* saveRetry's version test; the last conflict is rethrown out of the task
RefreshCheck(g) ==
    /\ pc[g] = "check"
    /\ IF SaveConflict(data[g], kv)
       THEN IF LastAttempt(attempt[g])
            THEN /\ pc' = [pc EXCEPT ![g] = "idle"]
                 /\ result' = [result EXCEPT ![g] = "failed"]
                 /\ data' = [data EXCEPT ![g] = Null]
                 /\ task' = [task EXCEPT ![g] = Null]
            ELSE /\ pc' = [pc EXCEPT ![g] = "backoff"]
                 /\ UNCHANGED <<result, data, task>>
       ELSE /\ pc' = [pc EXCEPT ![g] = "put"]
            /\ UNCHANGED <<result, data, task>>
    /\ UNCHANGED <<kv, loaded, attempt, reqs, scanFrame, events, now, listed>>

\* saveRetry after the backoff
RefreshReread(g) ==
    /\ pc[g] = "backoff"
    /\ data' = [data EXCEPT ![g].writeVersion = WriteVersionOf(kv)]
    /\ attempt' = [attempt EXCEPT ![g] = @ + 1]
    /\ pc' = [pc EXCEPT ![g] = "check"]
    /\ UNCHANGED <<kv, loaded, result, reqs, scanFrame, task, events, now, listed>>

\* saveData's put inside saveRetry
RefreshPut(g) ==
    /\ pc[g] = "put"
    /\ kv' = SaveBlob(data[g])
    /\ pc' = [pc EXCEPT ![g] = "emit"]
    /\ UNCHANGED <<data, loaded, attempt, result, reqs, scanFrame, task, events, now, listed>>

\* recordEvent: the audit log gains the event
recordEvent(log, ev) == Append(log, ev)

RECURSIVE recordAll(_, _)
\* `for (const ev of autoCompleteEvents) await recordEvent(...)`
recordAll(log, evs) ==
    IF evs = <<>> THEN log
    ELSE recordAll(recordEvent(log, [type |-> "item.status_synced",
                                     itemId |-> Head(evs).itemId,
                                     oldStatus |-> Head(evs).oldStatus,
                                     newStatus |-> Head(evs).newStatus]), Tail(evs))

\* the status_synced events recorded after the save
RefreshEmit(g) ==
    /\ pc[g] = "emit"
    /\ events' = recordAll(events, task[g].autoCompleteEvents)
    /\ pc' = [pc EXCEPT ![g] = "idle"]
    /\ result' = [result EXCEPT ![g] = "refreshed"]
    /\ data' = [data EXCEPT ![g] = Null]
    /\ task' = [task EXCEPT ![g] = Null]
    /\ UNCHANGED <<kv, loaded, attempt, reqs, scanFrame, now, listed>>

\* onRequestGet of items.js: getData, `item.status = deriveStatus(item)` for
\* every record; of the records returned the model keeps id and status
List ==
    /\ LET d == getData(kv) IN
        listed' = [i \in DOMAIN d.items |->
                      [id |-> d.items[i].id, status |-> deriveStatus(d.items[i])]]
    /\ listed' # listed
    /\ UNCHANGED <<kv, pc, data, loaded, attempt, result, reqs, scanFrame, task, events, now>>

\* an interactive request of another invocation that commits a save
OtherCommit ==
    /\ reqs < MaxRequests
    /\ reqs' = reqs + 1
    /\ kv' = SaveBlob(getData(kv))
    /\ UNCHANGED <<pc, data, loaded, attempt, result, scanFrame, task, events, now, listed>>

\* the snapshots a stored record can hold
StoredSnapshots(url) ==
    IF url = Null THEN {Null}
    ELSE LET fetched == {fetchGithubData(url, a, t) :
                            a \in ServiceAnswers(url) \ {Null, NotFound}, t \in {0, 1}}
         IN  {Null, NotFound} \cup fetched \cup
             {SetField(gd, "_notFoundCount", 2) : gd \in fetched}

RefreshUrls == {Null, [type |-> "repo"], [type |-> "pr"], [type |-> "issue"]}

\* the registries the refresh specification starts from: one record
RefreshRegistries ==
    {[version |-> 10, writeVersion |-> 0,
      items |-> <<[id |-> 1, githubUrl |-> url, githubData |-> gd, status |-> st]>>] :
        url \in RefreshUrls, gd \in UNION {StoredSnapshots(u) : u \in RefreshUrls},
        st \in {"in-progress", "done"}}

InitRefresh ==
    /\ kv \in {r \in RefreshRegistries :
                  r.items[1].githubData \in StoredSnapshots(r.items[1].githubUrl)}
    /\ pc = [p \in Refreshers |-> "idle"]
    /\ data = [p \in Refreshers |-> Null]
    /\ loaded = [p \in Refreshers |-> 0]
    /\ attempt = [p \in Refreshers |-> 0]
    /\ result = [p \in Refreshers |-> "none"]
    /\ reqs = 0
    /\ scanState = Null
    /\ archive = <<>>
    /\ task = [p \in Refreshers |-> Null]
    /\ events = <<>>
    /\ now = 1
    /\ listed = <<>>
    /\ feed = <<>>
    /\ scanMeta = Null
    /\ probe = Null

RefreshStep(g) ==
    \/ \E dt \in {0, 1} : RefreshStart(g, dt)
    \/ \E answer \in UNION {ServiceAnswers(u) : u \in RefreshUrls \ {Null}} :
            RefreshItem(g, answer)
    \/ RefreshEnd(g)
    \/ RefreshCheck(g)
    \/ RefreshReread(g)
    \/ RefreshPut(g)
    \/ RefreshEmit(g)

NextRefresh ==
    \/ \E g \in Refreshers : RefreshStep(g)
    \/ List
    \/ OtherCommit

SpecRefresh == InitRefresh /\ [][NextRefresh]_vars

----------------------------------------------------------------------------
(* Claims about status derivation and the refresh, under SpecRefresh       *)

\* the status the derivation table gives a snapshot, read row by row
TableStatus(gd) ==
    CASE gd = Null \/ ~Has(gd, "type") -> "todo"
      [] gd.type = "repo" /\ gd.state = "archived" -> "done"
      [] gd.type = "repo" /\ gd.state # "archived" -> "in-progress"
      [] gd.type = "pr" /\ gd.merged -> "done"
      [] gd.type = "pr" /\ ~gd.merged /\ gd.state = "closed" -> "blocked"
      [] gd.type = "pr" /\ ~gd.merged /\ gd.state # "closed" -> "in-progress"
      [] gd.type = "issue" /\ gd.state = "closed" -> "done"
      [] gd.type = "issue" /\ gd.state # "closed" -> "in-progress"

\* every snapshot shape: nothing, the bare not-found marker, and each kind
\* with each state and merged flag
SnapshotShapes ==
    {Null, NotFound} \cup
    [type : {"repo", "pr", "issue"},
     state : {"active", "archived", "open", "closed"},
     merged : BOOLEAN]

\* deriveStatus agrees with the table on every snapshot shape and on a record
\* with no githubData field
DerivedByTableOnAllShapes ==
    /\ \A gd \in SnapshotShapes :
          /\ deriveStatus([githubData |-> gd]) = TableStatus(gd)
          /\ deriveStatus([githubData |-> gd]) \notin {"shipped", "paid"}
    /\ deriveStatus([id |-> 1]) = "todo"

\* the records of the stored registry and of every working copy being refreshed
RecordsInPlay ==
    Range(ItemsOf(kv)) \cup
    UNION {Range(ItemsOf(data[g])) : g \in DOMAIN data}

\* C7: deriveStatus returns todo without a snapshot or kind; for a repository
\* done if archived else in-progress; for a pull request done if merged, else
\* blocked if closed, else in-progress; for an issue done if closed else
\* in-progress; and never shipped or paid.  Checked for every snapshot shape,
\* for every record the refresh holds or stores, and for the listing.
C7_DeriveStatusTable ==
    /\ DerivedByTableOnAllShapes
    /\ \A item \in RecordsInPlay :
          /\ deriveStatus(item) = TableStatus(item.githubData)
          /\ deriveStatus(item) \notin {"shipped", "paid"}
    /\ \A i \in DOMAIN listed :
          listed[i].status \in {"todo", "in-progress", "blocked", "done"}

\* a refresh stored a closed, unmerged pull request and the listing reported
\* it blocked
C7_Witness ==
    /\ \E item \in Range(ItemsOf(kv)) :
          /\ ~Falsy(item, "githubData") /\ Has(item.githubData, "type")
          /\ item.githubData.type = "pr" /\ item.githubData.state = "closed"
          /\ ~item.githubData.merged
    /\ \E i \in DOMAIN listed : listed[i].status = "blocked"
    /\ \E g \in DOMAIN result : result[g] = "refreshed"

TerminalStatuses == {"done", "shipped", "paid"}

\* C8: a record whose status is done, shipped or paid, as stored or as the
\* listing reports it, is never afterwards stored or reported as todo,
\* in-progress or blocked
C8_TerminalNeverRegresses ==
    [][/\ \A i \in DOMAIN listed :
             (i \in DOMAIN listed' /\ listed[i].status \in TerminalStatuses)
                 => listed'[i].status \in TerminalStatuses
       /\ \A i \in DOMAIN ItemsOf(kv) :
             (i \in DOMAIN ItemsOf(kv') /\ ItemsOf(kv)[i].status \in TerminalStatuses)
                 => ItemsOf(kv')[i].status \in TerminalStatuses]_vars

\* the events the run has queued for the record with this id
QueuedFor(g, id) ==
    LET ForId(e) == e.itemId = id IN SelectSeq(task[g].autoCompleteEvents, ForId)

\* C9: when a refresh saves, each record whose derived status the run changed
\* has exactly one queued status-synced event, carrying the derived status
\* before the refresh as oldStatus and the one after it as newStatus; a record
\* whose derived status is unchanged has none
C9_StatusSyncedEvents ==
    \A g \in DOMAIN pc :
        (g \in Refreshers /\ pc[g] = "put") =>
            \A i \in DOMAIN data[g].items :
                LET before == deriveStatus(getData(kv).items[i])
                    after == deriveStatus(data[g].items[i])
                    id == data[g].items[i].id
                IN  IF before # after
                    THEN QueuedFor(g, id) = <<[itemId |-> id, oldStatus |-> before,
                                               newStatus |-> after]>>
                    ELSE QueuedFor(g, id) = <<>>

----------------------------------------------------------------------------
(* Website discovery: URL scoring and extraction                           *)
(*                                                                         *)
(* A URL is [host, path]: the hostname as its dot-separated labels in      *)
(* lower case and the path as its segments.  A text (description, README,  *)
(* message) is the sequence of the URLs written in it, each with whether   *)
(* a context keyword and whether an attribution keyword stand in the 200   *)
(* characters before it; a missing or empty text is the empty sequence.    *)

NOISE_HOSTS ==
    {<<"github", "com">>, <<"www", "github", "com">>, <<"docs", "github", "com">>,
     <<"raw", "githubusercontent", "com">>, <<"user-images", "githubusercontent", "com">>,
     <<"avatars", "githubusercontent", "com">>, <<"camo", "githubusercontent", "com">>,
     <<"npmjs", "com">>, <<"www", "npmjs", "com">>,
     <<"shields", "io">>, <<"img", "shields", "io">>, <<"badge", "fury", "io">>,
     <<"coveralls", "io">>, <<"codecov", "io">>,
     <<"travis-ci", "org">>, <<"travis-ci", "com">>, <<"circleci", "com">>,
     <<"david-dm", "org">>, <<"gitter", "im">>,
     <<"localhost">>, <<"example", "com">>,
     <<"crates", "io">>, <<"pypi", "org">>, <<"rubygems", "org">>,
     <<"bun", "sh">>, <<"bun", "com">>, <<"deno", "land">>, <<"deno", "com">>,
     <<"nodejs", "org">>}

\* NOISE_PATHS: /agents/, /api/, /raw/ as a leading directory, /install as
\* the leading word
NOISE_PATHS(path) ==
    /\ Len(path) >= 1
    /\ \/ path[1] \in {"agents", "api", "raw"} /\ Len(path) >= 2
       \/ path[1] = "install"

SELF_HOSTS == {<<"aibtc-projects", "pages", "dev">>}

\* host.endsWith('.' + suffix)
EndsWith(host, suffix) ==
    /\ Len(host) > Len(suffix)
    /\ SubSeq(host, Len(host) - Len(suffix) + 1, Len(host)) = suffix

\* the labels of the model's hostnames that contain 'github', and 'npm'
GithubLabels == {"github", "githubusercontent", "github-pages"}
NpmLabels == {"npm", "npmjs", "npmtools"}

\* host.includes(word), word given by the labels that contain it
Includes(host, labels) == \E i \in DOMAIN host : host[i] \in labels

\* isDeploymentUrl(url): 0 rejects; `new URL(null)` throws, hence 0
isDeploymentUrl(url) ==
    IF url = Null THEN 0
    ELSE LET host == url.host IN
         IF host \in NOISE_HOSTS THEN 0
         ELSE IF NOISE_PATHS(url.path) THEN 0
         ELSE IF EndsWith(host, <<"pages", "dev">>) THEN 10
         ELSE IF EndsWith(host, <<"vercel", "app">>) THEN 10
         ELSE IF EndsWith(host, <<"netlify", "app">>) THEN 10
         ELSE IF EndsWith(host, <<"workers", "dev">>) THEN 9
         ELSE IF EndsWith(host, <<"herokuapp", "com">>) THEN 8
         ELSE IF EndsWith(host, <<"fly", "dev">>) THEN 8
         ELSE IF EndsWith(host, <<"web", "app">>) \/ EndsWith(host, <<"firebaseapp", "com">>) THEN 8
         ELSE IF EndsWith(host, <<"onrender", "com">>) THEN 8
         ELSE IF EndsWith(host, <<"surge", "sh">>) THEN 7
         ELSE IF EndsWith(host, <<"github", "io">>) THEN 7
         ELSE IF ~Includes(host, GithubLabels) /\ ~Includes(host, NpmLabels) THEN 6
         ELSE 0

\* extractUrlsFromText(text): the URLs in their order of appearance
extractUrlsFromText(text) == [i \in DOMAIN text |-> text[i].url]

\* the first entry of the highest score: what `sort((a, b) => b.score -
\* a.score)[0]` picks, the sort being stable
FirstBest(scored) ==
    scored[CHOOSE i \in DOMAIN scored :
              /\ \A j \in DOMAIN scored : scored[j].score <= scored[i].score
              /\ \A j \in 1..(i - 1) : scored[j].score < scored[i].score]

\* `content.indexOf(url)`: the first place the URL is written
IndexOf(content, url) ==
    CHOOSE i \in DOMAIN content :
        content[i].url = url /\ \A j \in 1..(i - 1) : content[j].url # url

\* `.filter(u => u.score > 0 && !skipUrls.has(u.url))`
Kept(urls, skipUrls) ==
    LET Scores(u) == isDeploymentUrl(u) > 0 /\ u \notin skipUrls
    IN  SelectSeq(urls, Scores)

\* a scoring that ignores the keywords
BonusNone(at) == 0

\* +5 after a context keyword, -4 after an attribution keyword
Bonus(at) == (IF at.context THEN 5 ELSE 0) - (IF at.attribution THEN 4 ELSE 0)

\* the README's scores
ScoredReadme(content, kept) ==
    [i \in DOMAIN kept |->
        [url |-> kept[i],
         score |-> isDeploymentUrl(kept[i]) + Bonus(content[IndexOf(content, kept[i])])]]

\* `.filter(s => s.score >= 5)`
Qualifying(scored) ==
    LET Enough(e) == e.score >= 5
    IN  SelectSeq(scored, Enough)

\* `best.length > 0 ? best[0].url : null`
FirstBestUrl(best) == IF best = <<>> THEN Null ELSE FirstBest(best).url

\* extractUrlFromReadme(content, skipUrls)
extractUrlFromReadme(content, skipUrls) ==
    FirstBestUrl(Qualifying(ScoredReadme(content,
                                         Kept(extractUrlsFromText(content), skipUrls))))

\* the description's scores
ScoredDescription(kept) ==
    [i \in DOMAIN kept |-> [url |-> kept[i], score |-> isDeploymentUrl(kept[i])]]

\* extractUrlFromDescription(description, skipUrls)
extractUrlFromDescription(description, skipUrls) ==
    FirstBestUrl(ScoredDescription(Kept(extractUrlsFromText(description), skipUrls)))

\* matchMention(preview, item) inside extractUrlFromMessages: a message is
\* kept with the ids of the records its text matches
MessageMatches(msg, item) == item.id \in msg.matches

RECURSIVE CountedUrls(_, _)
\* the URLs extractUrlFromMessages counts, message by message
CountedUrls(messages, item) ==
    IF messages = <<>> THEN <<>>
    ELSE LET msg == Head(messages)
             Counts(u) == isDeploymentUrl(u) # 0 /\ u.host \notin SELF_HOSTS
         IN  (IF MessageMatches(msg, item)
              THEN SelectSeq(extractUrlsFromText(msg.messagePreview), Counts)
              ELSE <<>>) \o CountedUrls(Tail(messages), item)

RECURSIVE BestCounted(_, _, _, _)
\* the loop over urlCounts in insertion order: a higher count wins, an equal
\* count wins with a higher score
BestCounted(counted, i, best, bestCount) ==
    IF i > Len(counted) THEN best
    ELSE LET url == counted[i]
             first == \A j \in 1..(i - 1) : counted[j] # url
             count == Cardinality({j \in DOMAIN counted : counted[j] = url})
         IN  IF first /\ (count > bestCount
                          \/ (count = bestCount
                              /\ isDeploymentUrl(url) > isDeploymentUrl(best)))
             THEN BestCounted(counted, i + 1, url, count)
             ELSE BestCounted(counted, i + 1, best, bestCount)

\* extractUrlFromMessages(messages, item)
extractUrlFromMessages(messages, item) ==
    BestCounted(CountedUrls(messages, item), 1, Null, 0)

----------------------------------------------------------------------------
(* Website discovery: discoverWebsites                                     *)
(*                                                                         *)
(* A record here is [id, githubUrl, githubData, website, deliverables]:    *)
(* githubUrl is Null or [type, repo], githubData carries state, homepage   *)
(* and title (the description text), website is Null or [url, source].     *)
(* The clock counts hours.                                                 *)

WEBSITE_SCAN_COOLDOWN_MS == 1

\* the cooldown after three or more consecutive failures, `6 * 60 * 60 * 1000`
WebsiteBackoffMs == 6

\* scanState.websiteFilterVersion the run requires
WebsiteFilterVersion == 5

\* r without field f (`delete r.f`)
DropField(r, f) == [g \in (DOMAIN r) \ {f} |-> r[g]]

\* `scanState.repos[rp] = v`
PutRepo(scan, rp, v) ==
    [scan EXCEPT !.repos = [r \in (DOMAIN @) \cup {rp} |-> IF r = rp THEN v ELSE @[r]]]

\* the scan state the run works on: the default when the key is missing, the
\* website cooldowns dropped when the filter version is older than 5
LoadScanState(raw) ==
    LET s0 == IF raw = Null THEN [version |-> 1, repos |-> <<>>] ELSE raw
    IN  IF ~Has(s0, "websiteFilterVersion") \/ s0.websiteFilterVersion < WebsiteFilterVersion
        THEN SetField([s0 EXCEPT !.repos =
                          [r \in DOMAIN @ |-> DropField(DropField(@[r], "website"),
                                                        "websiteFails")]],
                      "websiteFilterVersion", WebsiteFilterVersion)
        ELSE s0

\* the URLs claimed when the run starts
ClaimedUrls(items) ==
    {items[i].website.url : i \in {j \in DOMAIN items : ~Falsy(items[j], "website")}}

\* a homepage-sourced claim follows githubData.homepage
SyncHomepage(item) ==
    IF /\ ~Falsy(item, "website")
       /\ item.website.source = "homepage"
       /\ HomepageOf(item) # Null
       /\ item.website.url # HomepageOf(item)
    THEN [item EXCEPT !.website.url = HomepageOf(item)]
    ELSE item

\* a re-validation that tests the conflict with a homepage claim only
ShouldClearConflictOnly(items, idx) ==
    LET item == items[idx] IN
    /\ ~Falsy(item, "website")
    /\ item.website.source # "homepage"
    /\ \E j \in DOMAIN items :
          /\ j # idx
          /\ ~Falsy(items[j], "website")
          /\ items[j].website.url = item.website.url
          /\ items[j].website.source = "homepage"

\* shouldClear for the record at idx
ShouldClear(items, idx) ==
    LET item == items[idx] IN
    /\ ~Falsy(item, "website")
    /\ \/ isDeploymentUrl(item.website.url) = 0
       \/ /\ item.website.source # "homepage"
          /\ \E j \in DOMAIN items :
                /\ j # idx
                /\ ~Falsy(items[j], "website")
                /\ items[j].website.url = item.website.url
                /\ items[j].website.source = "homepage"

\* `item.githubData?.title`
TitleOf(item) ==
    IF Falsy(item, "githubData") \/ ~Has(item.githubData, "title") THEN <<>>
    ELSE item.githubData.title

\* `item.githubData?.state === 'archived'`
StateArchived(item) ==
    /\ ~Falsy(item, "githubData")
    /\ Has(item.githubData, "state")
    /\ item.githubData.state = "archived"

\* priority 4: the first deliverable whose URL scores and is not the board's
DeliverableUrl(item) ==
    LET ds == IF Has(item, "deliverables") THEN item.deliverables ELSE <<>>
        Usable(d) == /\ ~Falsy(d, "url")
                     /\ isDeploymentUrl(d.url) # 0
                     /\ d.url.host \notin SELF_HOSTS
        usable == SelectSeq(ds, Usable)
    IN  IF usable = <<>> THEN Null ELSE Head(usable).url

\* what the README request can give: an exception, a response that is not
\* ok, or the text
ReadmeThrows == [fail |-> "throws"]
ReadmeNotOk == [fail |-> "notok"]

\* priority 5, the message archive
FromMessages(msgUrl) ==
    IF msgUrl # Null THEN [url |-> msgUrl, source |-> "message"] ELSE Null

\* priority 4, the deliverables
FromDeliverables(item, messages, delUrl) ==
    IF delUrl # Null THEN [url |-> delUrl, source |-> "deliverable"]
    ELSE FromMessages(extractUrlFromMessages(messages, item))

\* priority 3, the README, when the request gave a text
FromReadme(item, messages, readmeUrl) ==
    IF readmeUrl # Null THEN [url |-> readmeUrl, source |-> "readme"]
    ELSE FromDeliverables(item, messages, DeliverableUrl(item))

\* priority 2, the description
FromDescription(item, claimedUrls, readme, messages, descUrl) ==
    IF descUrl # Null THEN [url |-> descUrl, source |-> "description"]
    ELSE FromReadme(item, messages,
                    IF Has(readme, "text")
                    THEN extractUrlFromReadme(readme.text, claimedUrls) ELSE Null)

\* priority 1, the homepage
HomepageScores(hp) == hp # Null /\ isDeploymentUrl(hp) > 0

\* priorities 1 to 5: the candidate [url, source], Null when no source yields one
Candidate(item, claimedUrls, readme, messages) ==
    IF HomepageScores(HomepageOf(item))
    THEN [url |-> HomepageOf(item), source |-> "homepage"]
    ELSE FromDescription(item, claimedUrls, readme, messages,
                         extractUrlFromDescription(TitleOf(item), claimedUrls))

\* whether priorities 1 and 2 yield nothing, so that the README is requested
NeedsReadme(item, claimedUrls) ==
    /\ ~HomepageScores(HomepageOf(item))
    /\ extractUrlFromDescription(TitleOf(item), claimedUrls) = Null

\* what one iteration leaves: the record, the claimed URLs, the scan state,
\* `changed`, and whether the README was requested
Iterated(item, claimedUrls, scan, changed, fetched) ==
    [item |-> item, claimedUrls |-> claimedUrls, scanState |-> scan,
     changed |-> changed, fetched |-> fetched]

\* `scanState.repos[repoPath] || {}`
RepoStateOf(scan, repoPath) ==
    IF repoPath \in DOMAIN scan.repos THEN scan.repos[repoPath] ELSE <<>>

\* `repoState.website ? new Date(repoState.website).getTime() : 0`
LastScanOf(repoState) == IF Has(repoState, "website") THEN repoState.website ELSE 0

\* `repoState.websiteFails || 0`
FailsOf(repoState) ==
    IF Has(repoState, "websiteFails") THEN repoState.websiteFails ELSE 0

\* the cooldown of a repository
CooldownOf(repoState) ==
    IF FailsOf(repoState) >= 3 THEN WebsiteBackoffMs ELSE WEBSITE_SCAN_COOLDOWN_MS

\* `scanState.repos[repoPath] = { ...repoState, website: <now>, websiteFails }`
Stamp(scan, repoPath, repoState, tnow, fails) ==
    PutRepo(scan, repoPath,
            SetField(SetField(repoState, "website", tnow), "websiteFails", fails))

\* the end of the iteration: a candidate claimed by another record is
\* dropped, any other is assigned; the repository is stamped as scanned
Assign(item, claimedUrls, scan, changed, tnow, repoState, found, fetched) ==
    IF found # Null /\ found.url \notin claimedUrls
    THEN Iterated([item EXCEPT !.website = found], claimedUrls \cup {found.url},
                  Stamp(scan, item.githubUrl.repo, repoState, tnow, 0), TRUE, fetched)
    ELSE Iterated(item, claimedUrls,
                  Stamp(scan, item.githubUrl.repo, repoState, tnow, 0), changed, fetched)

\* the sources; a README request that throws counts a failure and ends the
\* iteration
Attempt(item, claimedUrls, scan, changed, tnow, readme, messages, repoState, fetched) ==
    IF fetched /\ readme = ReadmeThrows
    THEN Iterated(item, claimedUrls,
                  Stamp(scan, item.githubUrl.repo, repoState, tnow, FailsOf(repoState) + 1),
                  changed, TRUE)
    ELSE Assign(item, claimedUrls, scan, changed, tnow, repoState,
                Candidate(item, claimedUrls, readme, messages), fetched)

\* the cooldown test
Cooldown(item, claimedUrls, scan, changed, tnow, readme, messages, repoState) ==
    IF tnow - LastScanOf(repoState) < CooldownOf(repoState)
    THEN Iterated(item, claimedUrls, scan, changed, FALSE)
    ELSE Attempt(item, claimedUrls, scan, changed, tnow, readme, messages, repoState,
                 NeedsReadme(item, claimedUrls))

\* the `continue`s for a record with a claim, without a repository URL, or
\* with an archived repository
Discover(item, claimedUrls, scan, changed, tnow, readme, messages) ==
    IF \/ ~Falsy(item, "website")
       \/ Falsy(item, "githubUrl")
       \/ item.githubUrl.type # "repo"
       \/ StateArchived(item)
    THEN Iterated(item, claimedUrls, scan, changed, FALSE)
    ELSE Cooldown(item, claimedUrls, scan, changed, tnow, readme, messages,
                  RepoStateOf(scan, item.githubUrl.repo))

\* a clearing that keeps the cooldown
ForgetScanKept(scan, item) == scan

\* `delete scanState.repos[rp].website` for the record's repository
ForgetScan(scan, item) ==
    IF ~Falsy(item, "githubUrl") /\ item.githubUrl.repo \in DOMAIN scan.repos
    THEN [scan EXCEPT !.repos[item.githubUrl.repo] = DropField(@, "website")]
    ELSE scan

\* the claim is cleared when shouldClear holds: its URL leaves claimedUrls, the
\* repository's cooldown is dropped, and discovery follows
Revalidate(item, clear, claimedUrls, scan, changed, tnow, readme, messages) ==
    Discover(IF clear THEN [item EXCEPT !.website = Null] ELSE item,
             IF clear THEN claimedUrls \ {item.website.url} ELSE claimedUrls,
             IF clear THEN ForgetScan(scan, item) ELSE scan,
             changed \/ clear, tnow, readme, messages)

\* the record at idx after the homepage sync, with shouldClear for it
Synced(items, idx, t, readme, messages) ==
    Revalidate(items[idx], ShouldClear(items, idx), t.claimedUrls, t.scanState,
               t.changed, t.now, readme, messages)

\* one iteration of `for (const item of data.items)`
WebIteration(items, idx, t, readme, messages) ==
    Synced([items EXCEPT ![idx] = SyncHomepage(items[idx])], idx,
           [t EXCEPT !.changed = @ \/ SyncHomepage(items[idx]) # items[idx]],
           readme, messages)

Discoverers == {"d1"}

\* discoverWebsites up to the loop: the scan state, getData, `now`, claimedUrls;
\* dt is the time that passed since the previous step of the clock.  A
\* behaviour holds one run of each discoverer.
WebStart(d, dt) ==
    /\ pc[d] = "idle" /\ reqs < MaxRequests
    /\ reqs' = reqs + 1
    /\ now' = now + dt
    /\ data' = [data EXCEPT ![d] = getData(kv)]
    /\ task' = [task EXCEPT ![d] = [now |-> now', idx |-> 1, changed |-> FALSE,
                                     scanState |-> LoadScanState(scanState),
                                     claimedUrls |-> ClaimedUrls(getData(kv).items)]]
    /\ pc' = [pc EXCEPT ![d] = "loop"]
    /\ result' = [result EXCEPT ![d] = "pending"]
    /\ UNCHANGED <<kv, loaded, attempt, events, listed, scanFrame>>

\* one iteration of the loop, with the answer of the README request when the
\* iteration makes it
WebItem(d, readme) ==
    /\ pc[d] = "loop"
    /\ task[d].idx <= Len(data[d].items)
    /\ \E r \in {WebIteration(data[d].items, task[d].idx, task[d], readme, archive)} :
        /\ r.fetched \/ readme = ReadmeNotOk
        /\ data' = [data EXCEPT ![d].items[task[d].idx] = r.item]
        /\ task' = [task EXCEPT ![d].idx = @ + 1,
                                ![d].changed = r.changed,
                                ![d].scanState = r.scanState,
                                ![d].claimedUrls = r.claimedUrls]
    /\ UNCHANGED <<kv, pc, loaded, attempt, result, reqs, events, now, listed, scanFrame>>

\* after the loop: `if (changed) await saveRetry(env, data)`
WebEnd(d) ==
    /\ pc[d] = "loop"
    /\ task[d].idx > Len(data[d].items)
    /\ IF task[d].changed
       THEN /\ pc' = [pc EXCEPT ![d] = "check"]
            /\ attempt' = [attempt EXCEPT ![d] = 1]
       ELSE /\ pc' = [pc EXCEPT ![d] = "scanput"]
            /\ UNCHANGED attempt
    /\ UNCHANGED <<kv, data, loaded, result, reqs, task, events, now, listed, scanFrame>>

\* saveRetry's version test; the last conflict is rethrown out of the task,
\* before the scan state is put
WebCheck(d) ==
    /\ pc[d] = "check"
    /\ IF SaveConflict(data[d], kv)
       THEN IF LastAttempt(attempt[d])
            THEN /\ pc' = [pc EXCEPT ![d] = "done"]
                 /\ result' = [result EXCEPT ![d] = "failed"]
                 /\ data' = [data EXCEPT ![d] = Null]
                 /\ task' = [task EXCEPT ![d] = Null]
            ELSE /\ pc' = [pc EXCEPT ![d] = "backoff"]
                 /\ UNCHANGED <<result, data, task>>
       ELSE /\ pc' = [pc EXCEPT ![d] = "put"]
            /\ UNCHANGED <<result, data, task>>
    /\ UNCHANGED <<kv, loaded, attempt, reqs, events, now, listed, scanFrame>>

\* saveRetry after the backoff
WebReread(d) ==
    /\ pc[d] = "backoff"
    /\ data' = [data EXCEPT ![d].writeVersion = WriteVersionOf(kv)]
    /\ attempt' = [attempt EXCEPT ![d] = @ + 1]
    /\ pc' = [pc EXCEPT ![d] = "check"]
    /\ UNCHANGED <<kv, loaded, result, reqs, task, events, now, listed, scanFrame>>

\* saveData's put inside saveRetry
WebPut(d) ==
    /\ pc[d] = "put"
    /\ kv' = SaveBlob(data[d])
    /\ pc' = [pc EXCEPT ![d] = "scanput"]
    /\ UNCHANGED <<data, loaded, attempt, result, reqs, task, events, now, listed, scanFrame>>

\* `ROADMAP_KV.put(GITHUB_SCAN_KEY, ...)` and the return
WebScanPut(d) ==
    /\ pc[d] = "scanput"
    /\ scanState' = task[d].scanState
    /\ pc' = [pc EXCEPT ![d] = "done"]
    /\ result' = [result EXCEPT ![d] = "discovered"]
    /\ data' = [data EXCEPT ![d] = Null]
    /\ task' = [task EXCEPT ![d] = Null]
    /\ UNCHANGED <<kv, loaded, attempt, reqs, events, now, listed, archive, mentionFrame>>

\* a static site, a custom domain and a source-hosting page
SiteUrl == [host |-> <<"roadmap", "pages", "dev">>, path |-> <<>>]
DomainUrl == [host |-> <<"aibtc", "com">>, path |-> <<>>]
SourceUrl == [host |-> <<"github", "com">>, path |-> <<"aibtcdev", "roadmap">>]

\* a URL as written in a text
Written(url, context, attribution) ==
    [url |-> url, context |-> context, attribution |-> attribution]

ReadmeTexts ==
    {<<>>,
     <<Written(SiteUrl, FALSE, FALSE)>>,
     <<Written(DomainUrl, FALSE, TRUE)>>,
     <<Written(SourceUrl, TRUE, FALSE), Written(SiteUrl, TRUE, FALSE)>>,
     <<Written(DomainUrl, FALSE, FALSE), Written(SiteUrl, FALSE, FALSE)>>}

ReadmeAnswers == {ReadmeThrows, ReadmeNotOk} \cup {[text |-> x] : x \in ReadmeTexts}

WebRepos == {"aibtcdev/one", "aibtcdev/two"}

\* the claims a stored record can hold: none, one taken from a homepage (the
\* load migration takes any), one found in a README
StoredClaims ==
    {Null} \cup
    {[url |-> u, source |-> "homepage"] : u \in {SiteUrl, DomainUrl, SourceUrl}} \cup
    {[url |-> u, source |-> "readme"] : u \in {SiteUrl, DomainUrl}}

\* the stored records of a repository: description and deliverables carry a
\* URL only on records without homepage and claim
WebRecords(id, repo) ==
    {[id |-> id, githubUrl |-> [type |-> "repo", repo |-> repo],
      githubData |-> [type |-> "repo", state |-> "active", homepage |-> hp, title |-> ti],
      website |-> w, deliverables |-> ds] :
        hp \in {Null, SiteUrl, SourceUrl}, w \in StoredClaims,
        ti \in {<<>>, <<Written(DomainUrl, FALSE, FALSE)>>},
        ds \in {<<>>, <<[url |-> SiteUrl]>>}}

\* the registries discovery starts from: two records at the current schema
\* version, or two records stored before the website field existed
WebRegistries ==
    LET Plain(r) == r.githubData.title = <<>> /\ r.deliverables = <<>>
        Bare(r) == r.githubData.homepage = Null /\ r.website = Null
        Current == {r \in WebRecords(1, "aibtcdev/one") : Plain(r) \/ Bare(r)}
        Second == {r \in WebRecords(2, "aibtcdev/two") : Plain(r)}
    IN  {[version |-> 10, writeVersion |-> 0, items |-> <<a, b>>] :
            a \in Current, b \in Second}
        \cup
        {[version |-> 7, writeVersion |-> 0,
          items |-> <<DropField(a, "website"), DropField(b, "website")>>] :
            a \in {r \in Current : Plain(r) /\ r.website = Null},
            b \in {r \in Second : r.website = Null}}

\* the stored scan states: none, both repositories scanned this hour, both
\* scanned two hours ago after three failures, and one written under an older
\* filter version
WebScanStates ==
    LET Scanned(at, fails) == [r \in WebRepos |-> [website |-> at, websiteFails |-> fails]]
    IN  {Null,
         [version |-> 1, websiteFilterVersion |-> 5, repos |-> Scanned(7, 0)],
         [version |-> 1, websiteFilterVersion |-> 5, repos |-> Scanned(5, 3)],
         [version |-> 1, websiteFilterVersion |-> 4, repos |-> Scanned(7, 0)]}

\* the message archive: empty, or one message that matches both records
WebArchives ==
    {<<>>,
     <<[matches |-> {1, 2}, messagePreview |-> <<Written(DomainUrl, FALSE, FALSE)>>]>>}

InitWeb ==
    /\ kv \in WebRegistries
    /\ scanState \in WebScanStates
    /\ archive \in WebArchives
    /\ archive # <<>> => scanState = Null
    /\ pc = [p \in Discoverers |-> "idle"]
    /\ data = [p \in Discoverers |-> Null]
    /\ loaded = [p \in Discoverers |-> 0]
    /\ attempt = [p \in Discoverers |-> 0]
    /\ result = [p \in Discoverers |-> "none"]
    /\ task = [p \in Discoverers |-> Null]
    /\ reqs = 0
    /\ events = <<>>
    /\ now = 7
    /\ listed = <<>>
    /\ feed = <<>>
    /\ scanMeta = Null
    /\ probe = Null

WebStep(d) ==
    \/ \E dt \in {0, 1} : WebStart(d, dt)
    \/ \E readme \in ReadmeAnswers : WebItem(d, readme)
    \/ WebEnd(d)
    \/ WebCheck(d)
    \/ WebReread(d)
    \/ WebPut(d)
    \/ WebScanPut(d)

NextWeb ==
    \/ \E d \in Discoverers : WebStep(d)
    \/ OtherCommit

SpecWeb == InitWeb /\ [][NextWeb]_vars

\* two records hold the same website URL
SharedWebsite(items) ==
    \E i, j \in DOMAIN items :
        /\ i # j
        /\ ~Falsy(items[i], "website") /\ ~Falsy(items[j], "website")
        /\ items[i].website.url = items[j].website.url

\* C10: once a discovery run has completed, no two records of the registry,
\* as any load returns it, hold the same non-null website URL
C10_WebsiteClaimsUnique ==
    \A d \in DOMAIN result :
        result[d] = "discovered" => ~SharedWebsite(getData(kv).items)

\* the step is an iteration of d's loop
WebItemStep(d) == pc[d] = "loop" /\ pc'[d] = "loop" /\ task'[d] # task[d]

\* the iteration assigned the record a claim: after the homepage sync the
\* record had no claim, or its claim was cleared, and it ends with one
AssignedBy(d) ==
    LET idx == task[d].idx
        items1 == [data[d].items EXCEPT ![idx] = SyncHomepage(@)]
    IN  /\ Falsy(items1[idx], "website") \/ ShouldClear(items1, idx)
        /\ ~Falsy(data'[d].items[idx], "website")

\* C11: an iteration of a discovery run never assigns a record a website URL
\* that another record of the run's registry holds at that moment, also when
\* the record's own claim on the URL was cleared in that iteration
C11_NeverAssignClaimedUrl ==
    [][\A d \in DOMAIN pc :
          (d \in Discoverers /\ WebItemStep(d) /\ AssignedBy(d)) =>
              \A j \in DOMAIN data'[d].items :
                  (j # task[d].idx /\ ~Falsy(data'[d].items[j], "website")) =>
                      data'[d].items[j].website.url
                          # data'[d].items[task[d].idx].website.url]_vars

----------------------------------------------------------------------------
(* Mention matching: getMatchTerms and matchMention.                       *)
(* A text is a sequence of characters; a character is a one-letter string, *)
(* the two dashes are the characters "emdash" and "endash".                *)

UpperLetters == <<"A", "B", "C", "D", "E", "F", "G", "H", "I", "J", "K", "L", "M", "N", "O", "P", "Q", "R", "S", "T", "U", "V", "W", "X", "Y", "Z">>

LowerLetters == <<"a", "b", "c", "d", "e", "f", "g", "h", "i", "j", "k", "l", "m", "n", "o", "p", "q", "r", "s", "t", "u", "v", "w", "x", "y", "z">>

Digits == <<"0", "1", "2", "3", "4", "5", "6", "7", "8", "9">>

\* the characters `[a-z0-9]`
Alnum == Range(LowerLetters) \cup Range(Digits)

\* the characters `\s`
Whitespace == {" "}

\* the characters `[—–|]`
Separators == {"emdash", "endash", "|"}

\* `String.prototype.toLowerCase` on one character
LowerChar(c) ==
    IF c \in Range(UpperLetters)
    THEN LowerLetters[CHOOSE i \in DOMAIN UpperLetters : UpperLetters[i] = c]
    ELSE c

toLowerCase(s) == [i \in DOMAIN s |-> LowerChar(s[i])]

\* `s.includes(t)`
StrIncludes(s, t) ==
    \E i \in 0..(Len(s) - Len(t)) : SubSeq(s, i + 1, i + Len(t)) = t

RECURSIVE trimStart(_)
trimStart(s) ==
    IF s # <<>> /\ Head(s) \in Whitespace THEN trimStart(Tail(s)) ELSE s

RECURSIVE trimEnd(_)
trimEnd(s) ==
    IF s # <<>> /\ s[Len(s)] \in Whitespace
    THEN trimEnd(SubSeq(s, 1, Len(s) - 1))
    ELSE s

trim(s) == trimEnd(trimStart(s))

\* `s.split(/\s*[—–|]\s*/)` before the trim of the parts: the white space
\* around a separator is left to the trim
RECURSIVE SplitOn(_, _, _)
SplitOn(s, seps, cur) ==
    IF s = <<>> THEN <<cur>>
    ELSE IF Head(s) \in seps THEN <<cur>> \o SplitOn(Tail(s), seps, <<>>)
    ELSE SplitOn(Tail(s), seps, Append(cur, Head(s)))

LongerThan3(p) == Len(p) > 3

\* `titleLower.split(...).map(p => p.trim()).filter(p => p.length > 3)`
titleParts(titleLower) ==
    LET parts == SplitOn(titleLower, Separators, <<>>)
    IN  SelectSeq([i \in DOMAIN parts |-> trim(parts[i])], LongerThan3)

\* `part.replace(/[^a-z0-9]+/g, '-')`
RECURSIVE Hyphenate(_, _)
Hyphenate(s, inRun) ==
    IF s = <<>> THEN <<>>
    ELSE IF Head(s) \in Alnum THEN <<Head(s)>> \o Hyphenate(Tail(s), FALSE)
    ELSE IF inRun THEN Hyphenate(Tail(s), TRUE)
    ELSE <<"-">> \o Hyphenate(Tail(s), TRUE)

\* `.replace(/^-|-$/g, '')`
StripEdgeHyphens(s) ==
    LET t == IF s # <<>> /\ Head(s) = "-" THEN Tail(s) ELSE s
    IN  IF t # <<>> /\ t[Len(t)] = "-" THEN SubSeq(t, 1, Len(t) - 1) ELSE t

slug(part) == StripEdgeHyphens(Hyphenate(part, FALSE))

TitleLowerOf(item) ==
    IF Has(item, "title") THEN toLowerCase(item.title) ELSE <<>>

\* rule 1: the full title (the mutant leaves it out)
FullTitleTermsNone(titleLower) == <<>>

FullTitleTerms(titleLower) ==
    IF titleLower # <<>> THEN <<[text |-> titleLower, type |-> "title"]>> ELSE <<>>

\* rule 2: the parts of the title that are not the whole title
PartTerms(titleLower) ==
    LET parts == titleParts(titleLower)
        NotWhole(p) == p # titleLower
        other == SelectSeq(parts, NotWhole)
    IN  [i \in DOMAIN other |-> [text |-> other[i], type |-> "title"]]

\* rule 3: the slugs of the title and of its parts
SlugTerms(titleLower) ==
    LET all == <<titleLower>> \o titleParts(titleLower)
        Slugged(p) == Len(slug(p)) > 3 /\ slug(p) # p
        kept == SelectSeq(all, Slugged)
    IN  [i \in DOMAIN kept |-> [text |-> slug(kept[i]), type |-> "slug"]]

Https == <<"h", "t", "t", "p", "s", ":", "/", "/">>

Http == <<"h", "t", "t", "p", ":", "/", "/">>

Www == <<"w", "w", "w", ".">>

GithubCom == <<"g", "i", "t", "h", "u", "b", ".", "c", "o", "m", "/">>

\* the prefixes `/^https?:\/\/(www\.)?github\.com\//` matches
GithubPrefixes ==
    {Https \o GithubCom, Http \o GithubCom,
     Https \o Www \o GithubCom, Http \o Www \o GithubCom}

StartsWith(s, p) == Len(s) >= Len(p) /\ SubSeq(s, 1, Len(p)) = p

\* `.replace(/^https?:\/\/(www\.)?github\.com\//, '')`
StripGithubPrefix(url) ==
    IF \E p \in GithubPrefixes : StartsWith(url, p)
    THEN LET p == CHOOSE q \in GithubPrefixes : StartsWith(url, q)
         IN  SubSeq(url, Len(p) + 1, Len(url))
    ELSE url

\* `.replace(/\/$/, '')`
StripTrailingSlash(s) ==
    IF s # <<>> /\ s[Len(s)] = "/" THEN SubSeq(s, 1, Len(s) - 1) ELSE s

\* `ghPath`: <<>> stands for null
ghPathOf(item) ==
    IF ~Has(item, "githubUrl") THEN <<>>
    ELSE toLowerCase(StripTrailingSlash(StripGithubPrefix(item.githubUrl)))

\* `ghPath.split('/').pop()`
repoNameOf(ghPath) ==
    LET segs == SplitOn(ghPath, {"/"}, <<>>) IN segs[Len(segs)]

\* `repoName.replace(/-/g, ' ')`
repoSpacedOf(repoName) ==
    [i \in DOMAIN repoName |-> IF repoName[i] = "-" THEN " " ELSE repoName[i]]

\* the least length of a repository name matched on its own
MinRepoNameLen == 8

\* rule 4, second half: the bare repository name and its spaced variant
\* (the mutant takes names of any length)
BareNameTermsAnyLength(repoName) ==
    IF repoName # <<>>
    THEN <<[text |-> repoName, type |-> "url"]>>
         \o (IF repoSpacedOf(repoName) # repoName
             THEN <<[text |-> repoSpacedOf(repoName), type |-> "url"]>>
             ELSE <<>>)
    ELSE <<>>

BareNameTerms(repoName) ==
    IF repoName # <<>> /\ Len(repoName) >= MinRepoNameLen
    THEN <<[text |-> repoName, type |-> "url"]>>
         \o (IF repoSpacedOf(repoName) # repoName
             THEN <<[text |-> repoSpacedOf(repoName), type |-> "url"]>>
             ELSE <<>>)
    ELSE <<>>

\* rule 4: the URL, the path and the repository name
RepoTerms(item) ==
    LET ghPath == ghPathOf(item)
    IN  IF ghPath # <<>>
        THEN <<[text |-> toLowerCase(item.githubUrl), type |-> "url"],
               [text |-> ghPath, type |-> "url"]>>
             \o BareNameTerms(repoNameOf(ghPath))
        ELSE <<>>

GENERIC_HOSTS ==
    {<<"a", "i", "b", "t", "c", ".", "c", "o", "m">>, <<"g", "i", "t", "h", "u", "b", ".", "c", "o", "m">>,
     <<"s", "t", "a", "c", "k", "s", ".", "c", "o">>, <<"b", "i", "t", "c", "o", "i", "n", ".", "o", "r", "g">>}

\* rule 5: the host name of the homepage; a homepage is the record `new URL`
\* parses it to, [bad |-> TRUE] when `new URL` throws
SiteTerms(item) ==
    IF Has(item, "githubData") /\ ~Falsy(item.githubData, "homepage")
       /\ Has(item.githubData.homepage, "hostname")
    THEN LET host == toLowerCase(item.githubData.homepage.hostname)
         IN  IF host \notin GENERIC_HOSTS /\ Len(host) > 5
             THEN <<[text |-> host, type |-> "site"]>>
             ELSE <<>>
    ELSE <<>>

\* rule 6: the curated search terms
AliasTerms(item) ==
    IF Has(item, "searchTerms")
    THEN LET LongerThan2(t) == Len(t) > 2
             kept == SelectSeq(item.searchTerms, LongerThan2)
         IN  [i \in DOMAIN kept |-> [text |-> kept[i], type |-> "alias"]]
    ELSE <<>>

\* `terms.filter(...)` with the `seen` set: the first term of each text
DedupTerms(terms) ==
    LET first == {i \in DOMAIN terms :
                     \A j \in 1..(i - 1) : terms[j].text # terms[i].text}
        RECURSIVE Pick(_)
        Pick(i) == IF i > Len(terms) THEN <<>>
                   ELSE (IF i \in first THEN <<terms[i]>> ELSE <<>>) \o Pick(i + 1)
    IN  Pick(1)

getMatchTerms(item) ==
    DedupTerms(FullTitleTerms(TitleLowerOf(item))
               \o PartTerms(TitleLowerOf(item))
               \o SlugTerms(TitleLowerOf(item))
               \o RepoTerms(item)
               \o SiteTerms(item)
               \o AliasTerms(item))

\* the type of the first term the preview includes; "null" is JavaScript's
\* null
matchMention(preview, item) ==
    LET terms == getMatchTerms(item)
        hits == {i \in DOMAIN terms : StrIncludes(preview, terms[i].text)}
    IN  IF hits = {} THEN "null"
        ELSE terms[CHOOSE i \in hits : \A j \in hits : i <= j].type

\* one probe of the matcher as scanForMentions calls it: the preview is the
\* message text in lower case
MatchProbe ==
    /\ probe # Null
    /\ ~probe.done
    /\ probe' = [probe EXCEPT
                    !.done = TRUE,
                    !.outcome = matchMention(toLowerCase(probe.message), probe.item)]
    /\ UNCHANGED <<kv, pc, data, loaded, attempt, result, reqs, task, events, now,
                   listed, scanState, archive, feed, scanMeta>>

toUpperCase(s) ==
    [i \in DOMAIN s |->
        IF s[i] \in Range(LowerLetters)
        THEN UpperLetters[CHOOSE k \in DOMAIN LowerLetters : LowerLetters[k] = s[i]]
        ELSE s[i]]

\* the longest generated title
MaxTitleLen == 2

\* every text of at most MaxTitleLen of these characters, and some titles
\* long enough to have parts and slugs
ProbeTitles ==
    UNION {[1..n -> {"a", "B", "|"}] : n \in 0..MaxTitleLen}
    \cup {<<"S", "i", "g", "n", "a", "l">>, <<"S", "i", "g", "n", "a", "l", " ", "emdash", " ", "A", "I", " ", "N", "e", "t", "s">>,
          <<"A", "r", "c", " ", "R", "u", "n">>, <<"s", "k", "i", "l", "l", "s">>}

ProbeUrls ==
    {Https \o GithubCom \o <<"D", "e", "v", "/", "s", "k", "i", "l", "l", "s">>,
     Https \o GithubCom \o <<"a", "b", "/", "B", "a">>,
     Http \o Www \o GithubCom \o <<"d", "e", "v", "/", "A", "r", "c", "-", "S", "t", "a", "r", "t", "e", "r", "/">>,
     Https \o GithubCom \o <<"d", "e", "v", "/", "a", "r", "c", "-", "r", "u", "n">>,
     Https \o GithubCom \o <<"d", "e", "v", "/", "r", "e", "g", "i", "s", "t", "r", "y">>}

ProbeHomepages ==
    {[hostname |-> <<"a", "i", "b", "t", "c", ".", "c", "o", "m">>], [hostname |-> <<"S", "i", "g", ".", "i", "o">>], [bad |-> TRUE]}

ProbeAliases == {<<<<"s", "k">>>>, <<<<"a", "r", "c">>, <<"s", "k", "i", "l", "l", "s">>>>}

ProbeItems ==
    {[id |-> 1]} \cup
    {[id |-> 1, title |-> t, githubUrl |-> Https \o GithubCom \o <<"a", "b", "/", "B", "a">>] :
        t \in ProbeTitles}
    \cup {[id |-> 1, title |-> <<"S", "i", "g", "n", "a", "l">>, githubUrl |-> u,
           githubData |-> [homepage |-> h], searchTerms |-> a] :
              u \in ProbeUrls, h \in ProbeHomepages, a \in ProbeAliases}

\* what a message says around and about a record
ProbePads == {<<>>, <<"T", "r", "y", " ">>}

ProbeTails == {<<>>, <<"!">>}

ProbeCores ==
    ProbeTitles \cup {toUpperCase(t) : t \in ProbeTitles}
    \cup {<<"s", "k", "i", "l", "l", "s">>, <<"B", "a">>, <<"a", "r", "c", "-", "s", "t", "a", "r", "t", "e", "r">>, <<"A", "R", "C", " ", "S", "T", "A", "R", "T", "E", "R">>,
          <<"a", "r", "c", "-", "r", "u", "n">>, <<"a", "r", "c", " ", "r", "u", "n">>, <<"r", "e", "g", "i", "s", "t", "r", "y">>, <<"d", "e", "v", "/", "s", "k", "i", "l", "l", "s">>,
          <<"s", "i", "g", ".", "i", "o">>, <<"s", "i", "g", "n", "a", "l", "-", "a", "i">>}

ProbeMessages ==
    {p \o c \o t : p \in ProbePads, c \in ProbeCores, t \in ProbeTails}

InitMatch ==
    /\ probe \in {[item |-> i, message |-> m, done |-> FALSE, outcome |-> "null"] :
                     i \in ProbeItems, m \in ProbeMessages}
    /\ kv = Null
    /\ pc = <<>>
    /\ data = <<>>
    /\ loaded = <<>>
    /\ attempt = <<>>
    /\ result = <<>>
    /\ reqs = 0
    /\ task = <<>>
    /\ events = <<>>
    /\ now = 1
    /\ listed = <<>>
    /\ scanState = Null
    /\ archive = <<>>
    /\ feed = <<>>
    /\ scanMeta = Null

NextMatch == MatchProbe

SpecMatch == InitMatch /\ [][NextMatch]_vars

\* C12: for every record with a non-empty title and every message text,
\* matchMention applied to the lower-cased message returns a match whenever
\* the message contains the record's lower-cased title, whatever the case of
\* the letters of the original message.
C12_TitleAlwaysMatches ==
    (probe # Null /\ probe.done) =>
        ((TitleLowerOf(probe.item) # <<>>
          /\ StrIncludes(toLowerCase(probe.message), TitleLowerOf(probe.item)))
            => probe.outcome # "null")

\* a message that holds the title in another case than the record's was matched
C12_Witness ==
    /\ probe # Null /\ probe.done
    /\ TitleLowerOf(probe.item) # <<>>
    /\ StrIncludes(toLowerCase(probe.message), TitleLowerOf(probe.item))
    /\ ~StrIncludes(probe.message, probe.item.title)
    /\ ~StrIncludes(probe.message, TitleLowerOf(probe.item))
    /\ probe.outcome = "title"

\* C13: for a record whose repository name is shorter than 8 characters the
\* repository rule of getMatchTerms contributes neither the bare name nor its
\* space-separated variant, so a message that is only that name is not matched
\* through the repository rule: it matches only if the title, slug, homepage
\* or alias rules produce a term it contains.
C13_ShortRepoNameNotATerm ==
    (probe # Null /\ probe.done /\ ghPathOf(probe.item) # <<>>
     /\ Len(repoNameOf(ghPathOf(probe.item))) < 8) =>
        /\ \A i \in DOMAIN RepoTerms(probe.item) :
              RepoTerms(probe.item)[i].text
                  \notin {repoNameOf(ghPathOf(probe.item)),
                          repoSpacedOf(repoNameOf(ghPathOf(probe.item)))}
        /\ toLowerCase(probe.message) = repoNameOf(ghPathOf(probe.item))
              => probe.outcome # "url"

\* a message that is only the short repository name went unmatched, and the
\* same rule matched a record whose repository name is long enough
C13_Witness ==
    /\ probe # Null /\ probe.done
    /\ ghPathOf(probe.item) # <<>>
    /\ Len(repoNameOf(ghPathOf(probe.item))) < 8
    /\ repoNameOf(ghPathOf(probe.item)) # <<>>
    /\ toLowerCase(probe.message) = repoNameOf(ghPathOf(probe.item))
    /\ probe.outcome = "null"

----------------------------------------------------------------------------
(* The mention scan: scanForMentions and archiveMessages.                  *)
(* An activity entry carries, in place of its text, the ids of the records *)
(* matchMention finds in it (`matches`).  Time is counted in units of the  *)
(* scan's cooldown.                                                        *)

MENTION_SCAN_COOLDOWN_MS == 1

MAX_ARCHIVED_MESSAGES == 2000

\* `[...processedIds].slice(-500)`
ProcessedCap == 500

\* the entries the activity API ever shows
MaxEntries == 2

Mentioners == {"m1", "m2"}

\* the k-th entry of the network's activity: a message that mentions record 1
EntryOf(k) ==
    [timestamp |-> k, type |-> "message", messagePreview |-> "text",
     matches |-> {1}, agent |-> [btcAddress |-> "w1"]]

\* `body.events` of the activity API: the entries lo..hi, newest first
ActivityEvents(f) == [i \in 1..(f.hi - f.lo + 1) |-> EntryOf(f.hi - i + 1)]

\* `e.type === 'message' && e.messagePreview`
IsMessage(e) == Has(e, "type") /\ e.type = "message" /\ Has(e, "messagePreview")

\* what archiveMessages keeps of an entry
ArchivedForm(ev) ==
    [timestamp |-> ev.timestamp, agent |-> ev.agent,
     messagePreview |-> ev.messagePreview, matches |-> ev.matches]

TimestampsOf(evs) == {evs[i].timestamp : i \in DOMAIN evs}

\* `existing.sort((a, b) => b.timestamp.localeCompare(a.timestamp))`
RECURSIVE NewestFirst(_)
NewestFirst(S) ==
    IF S = {} THEN <<>>
    ELSE LET e == CHOOSE x \in S : \A y \in S : y.timestamp <= x.timestamp
         IN  <<e>> \o NewestFirst(S \ {e})

\* `slice(0, n)`
FirstN(s, n) == SubSeq(s, 1, IF Len(s) < n THEN Len(s) ELSE n)

\* `slice(-n)`
LastN(s, n) == SubSeq(s, IF Len(s) < n THEN 1 ELSE Len(s) - n + 1, Len(s))

\* archiveMessages: the entries not yet archived, pushed in feed order
RECURSIVE PushNew(_, _)
PushNew(existing, evs) ==
    IF evs = <<>> THEN existing
    ELSE IF Head(evs).timestamp \in TimestampsOf(existing)
         THEN PushNew(existing, Tail(evs))
         ELSE PushNew(Append(existing, ArchivedForm(Head(evs))), Tail(evs))

\* the archive archiveMessages puts when it added an entry
Trimmed(existing) == FirstN(NewestFirst(Range(existing)), MAX_ARCHIVED_MESSAGES)

\* the reset scan's merge of the archive into the live messages
Merged(messageEvents, archived) ==
    LET live == TimestampsOf(messageEvents)
        Older(msg) == msg.timestamp \notin live /\ Has(msg, "messagePreview")
    IN  messageEvents \o SelectSeq(archived, Older)

\* `sourceEvents.filter(...)`: the unprocessed entries with a text
NewEventsOf(sourceEvents, reset, processedIds) ==
    LET Fresh(e) == /\ (reset \/ (Has(e, "type") /\ e.type = "message"))
                    /\ Has(e, "messagePreview")
                    /\ e.timestamp \notin Range(processedIds)
    IN  SelectSeq(sourceEvents, Fresh)

\* a reset that keeps the counts
ZeroCountKeeps(item) == item

\* `if (item.mentions) item.mentions.count = 0` on reset
ZeroCount(item) ==
    IF Falsy(item, "mentions") THEN item ELSE [item EXCEPT !.mentions.count = 0]

\* the loop over newEvents for one record: a count per matching entry and
\* the entry's author as contributor
RECURSIVE CountMentions(_, _)
CountMentions(item, evs) ==
    IF evs = <<>> THEN item
    ELSE IF MessageMatches(Head(evs), item)
         THEN LET a == IF Falsy(item, "mentions")
                       THEN SetField(item, "mentions", [count |-> 0]) ELSE item
                  b == [a EXCEPT !.mentions.count = @ + 1]
                  c == IF ~Falsy(Head(evs), "agent")
                       THEN addContributor(b, Head(evs).agent.btcAddress) ELSE b
              IN  CountMentions(c, Tail(evs))
         ELSE CountMentions(item, Tail(evs))

\* `mentionEvents`: one per matching pair of entry and record
RECURSIVE MentionEventsOf(_, _)
MentionEventsOf(items, evs) ==
    IF evs = <<>> THEN <<>>
    ELSE LET Hit(it) == MessageMatches(Head(evs), it)
             hit == SelectSeq(items, Hit)
         IN  [i \in DOMAIN hit |-> [itemId |-> hit[i].id, agent |-> Head(evs).agent]]
             \o MentionEventsOf(items, Tail(evs))

\* `processedIds.add(ev.timestamp)` for every new entry
RECURSIVE AddProcessed(_, _)
AddProcessed(processedIds, evs) ==
    IF evs = <<>> THEN processedIds
    ELSE AddProcessed(IF Head(evs).timestamp \in Range(processedIds) THEN processedIds
                      ELSE Append(processedIds, Head(evs).timestamp), Tail(evs))

LastScanAt(meta) == IF Has(meta, "lastScanAt") THEN meta.lastScanAt ELSE 0

ProcessedOf(meta) == IF Has(meta, "processedIds") THEN meta.processedIds ELSE <<>>

\* the return of a run
MentionReturn(m, outcome) ==
    /\ pc' = [pc EXCEPT ![m] = "idle"]
    /\ result' = [result EXCEPT ![m] = outcome]
    /\ data' = [data EXCEPT ![m] = Null]
    /\ task' = [task EXCEPT ![m] = Null]

\* where a run goes once its entries are chosen: return, only the scan time,
\* or the registry
AfterSource(m, t, sourceEvents) ==
    LET newEvents == NewEventsOf(sourceEvents, t.reset, t.processedIds) IN
    IF sourceEvents = <<>>
    THEN MentionReturn(m, [scanned |-> TRUE, newMentions |-> 0, reset |-> t.reset])
    ELSE /\ pc' = [pc EXCEPT ![m] = IF newEvents = <<>> THEN "meta" ELSE "load"]
         /\ task' = [task EXCEPT ![m] = [t EXCEPT !.newEvents = newEvents]]
         /\ UNCHANGED <<result, data>>

\* the read of MENTION_SCAN_KEY and the cooldown test; dt is the time that
\* passed since the previous step of the clock; result keeps what the
\* invocation's last run returned
MentionStart(m, reset, dt) ==
    /\ pc[m] = "idle" /\ reqs < MaxRequests
    /\ reqs' = reqs + 1
    /\ now' = now + dt
    /\ IF ~reset /\ now' - LastScanAt(scanMeta) < MENTION_SCAN_COOLDOWN_MS
       THEN /\ result' = [result EXCEPT ![m] = [scanned |-> FALSE, reason |-> "cooldown"]]
            /\ UNCHANGED <<pc, task>>
       ELSE /\ pc' = [pc EXCEPT ![m] = "fetch"]
            /\ task' = [task EXCEPT ![m] =
                          [reset |-> reset,
                           processedIds |-> IF reset THEN <<>> ELSE ProcessedOf(scanMeta),
                           activityEvents |-> <<>>, messageEvents |-> <<>>,
                           newEvents |-> <<>>, mentionEvents |-> <<>>]]
            /\ UNCHANGED result
    /\ UNCHANGED <<kv, data, loaded, attempt, events, listed, scanState, archive,
                   feed, scanMeta, probe>>

\* the fetch of the activity; without a message archiveMessages returns at
\* once and the run goes on
MentionFetch(m, answer) ==
    /\ pc[m] = "fetch"
    /\ IF answer # "ok"
       THEN MentionReturn(m, [scanned |-> FALSE,
                              reason |-> IF answer = "throw" THEN "fetch_error"
                                         ELSE "api_error"])
       ELSE LET activityEvents == ActivityEvents(feed)
                messageEvents == SelectSeq(activityEvents, IsMessage)
                t == [task[m] EXCEPT !.activityEvents = activityEvents,
                                     !.messageEvents = messageEvents]
            IN  IF messageEvents # <<>>
                THEN /\ pc' = [pc EXCEPT ![m] = "archive"]
                     /\ task' = [task EXCEPT ![m] = t]
                     /\ UNCHANGED <<result, data>>
                ELSE AfterSource(m, t, IF t.reset THEN messageEvents ELSE activityEvents)
    /\ UNCHANGED <<kv, loaded, attempt, reqs, events, now, listed, scanState, archive,
                   feed, scanMeta, probe>>

\* where a run goes after archiveMessages
AfterArchive(m) ==
    IF task[m].reset
    THEN /\ pc' = [pc EXCEPT ![m] = "merge"]
         /\ UNCHANGED <<result, data, task>>
    ELSE AfterSource(m, task[m], task[m].activityEvents)

\* archiveMessages: getArchivedMessages, the push of the new entries, and the
\* return when nothing was added
MentionArchiveRead(m) ==
    /\ pc[m] = "archive"
    /\ LET existing == PushNew(archive, task[m].messageEvents) IN
        IF Len(existing) > Len(archive)
        THEN /\ pc' = [pc EXCEPT ![m] = "archiveput"]
             /\ task' = [task EXCEPT ![m] = SetField(@, "trimmed", Trimmed(existing))]
             /\ UNCHANGED <<result, data>>
        ELSE AfterArchive(m)
    /\ UNCHANGED <<kv, loaded, attempt, reqs, events, now, listed, scanState, archive,
                   feed, scanMeta, probe>>

\* archiveMessages: `ROADMAP_KV.put(MESSAGE_ARCHIVE_KEY, ...)`
MentionArchivePut(m) ==
    /\ pc[m] = "archiveput"
    /\ archive' = task[m].trimmed
    /\ AfterArchive(m)
    /\ UNCHANGED <<kv, loaded, attempt, reqs, events, now, listed, scanState,
                   feed, scanMeta, probe>>

\* the reset scan: getArchivedMessages and the merge
MentionMerge(m) ==
    /\ pc[m] = "merge"
    /\ LET merged == Merged(task[m].messageEvents, archive) IN
        AfterSource(m, [task[m] EXCEPT !.messageEvents = merged], merged)
    /\ UNCHANGED <<kv, loaded, attempt, reqs, events, now, listed, scanState, archive,
                   feed, scanMeta, probe>>

\* getData, the reset of the counts, the loop over the new entries
MentionLoad(m) ==
    /\ pc[m] = "load"
    /\ LET d == getData(kv)
           t == task[m]
           items1 == IF t.reset THEN [i \in DOMAIN d.items |-> ZeroCount(d.items[i])]
                     ELSE d.items
           items2 == [i \in DOMAIN items1 |-> CountMentions(items1[i], t.newEvents)]
           mentionEvents == MentionEventsOf(d.items, t.newEvents)
           changed == t.reset \/ mentionEvents # <<>>
       IN  /\ data' = [data EXCEPT ![m] = [d EXCEPT !.items = items2]]
           /\ loaded' = [loaded EXCEPT ![m] = d.writeVersion]
           /\ task' = [task EXCEPT ![m] =
                         [t EXCEPT !.processedIds = AddProcessed(@, t.newEvents),
                                   !.mentionEvents = mentionEvents]]
           /\ pc' = [pc EXCEPT ![m] = IF changed THEN "check" ELSE "meta"]
    /\ attempt' = [attempt EXCEPT ![m] = 1]
    /\ UNCHANGED <<kv, result, reqs, events, now, listed, scanState, archive,
                   feed, scanMeta, probe>>

\* saveRetry's version test; the last conflict is rethrown out of the scan
MentionCheck(m) ==
    /\ pc[m] = "check"
    /\ IF SaveConflict(data[m], kv)
       THEN IF LastAttempt(attempt[m])
            THEN MentionReturn(m, [failed |-> TRUE])
            ELSE /\ pc' = [pc EXCEPT ![m] = "backoff"]
                 /\ UNCHANGED <<result, data, task>>
       ELSE /\ pc' = [pc EXCEPT ![m] = "put"]
            /\ UNCHANGED <<result, data, task>>
    /\ UNCHANGED <<kv, loaded, attempt, reqs, events, now, listed, scanState, archive,
                   feed, scanMeta, probe>>

\* saveRetry after the backoff
MentionReread(m) ==
    /\ pc[m] = "backoff"
    /\ data' = [data EXCEPT ![m].writeVersion = WriteVersionOf(kv)]
    /\ attempt' = [attempt EXCEPT ![m] = @ + 1]
    /\ pc' = [pc EXCEPT ![m] = "check"]
    /\ UNCHANGED <<kv, loaded, result, reqs, task, events, now, listed, scanState,
                   archive, feed, scanMeta, probe>>

\* saveData's put inside saveRetry
MentionPut(m) ==
    /\ pc[m] = "put"
    /\ kv' = SaveBlob(data[m])
    /\ pc' = [pc EXCEPT ![m] = IF task[m].reset THEN "meta" ELSE "emit"]
    /\ UNCHANGED <<data, loaded, attempt, result, reqs, task, events, now, listed,
                   scanState, archive, feed, scanMeta, probe>>

RECURSIVE recordMentions(_, _)
\* `for (const me of mentionEvents) await recordEvent(...)`
recordMentions(log, mes) ==
    IF mes = <<>> THEN log
    ELSE recordMentions(recordEvent(log, [type |-> "item.mentioned",
                                          itemId |-> Head(mes).itemId]), Tail(mes))

\* the item.mentioned events of an incremental scan
MentionEmit(m) ==
    /\ pc[m] = "emit"
    /\ events' = recordMentions(events, task[m].mentionEvents)
    /\ pc' = [pc EXCEPT ![m] = "meta"]
    /\ UNCHANGED <<kv, data, loaded, attempt, result, reqs, task, now, listed,
                   scanState, archive, feed, scanMeta, probe>>

\* `ROADMAP_KV.put(MENTION_SCAN_KEY, ...)` and the return
MentionMetaPut(m) ==
    /\ pc[m] = "meta"
    /\ scanMeta' = [lastScanAt |-> now,
                    processedIds |-> LastN(task[m].processedIds, ProcessedCap)]
    /\ MentionReturn(m, [scanned |-> TRUE,
                         newMentions |-> Len(task[m].mentionEvents),
                         reset |-> task[m].reset])
    /\ UNCHANGED <<kv, loaded, attempt, reqs, events, now, listed, scanState, archive,
                   feed, probe>>

\* the network's activity: a new entry appears
FeedArrive ==
    /\ feed.hi < MaxEntries
    /\ feed' = [feed EXCEPT !.hi = @ + 1]
    /\ UNCHANGED <<kv, pc, data, loaded, attempt, result, reqs, task, events, now,
                   listed, scanState, archive, scanMeta, probe>>

MentionRegistry ==
    [version |-> 10, writeVersion |-> 0,
     items |-> <<[id |-> 1, contributors |-> {}, mentions |-> [count |-> 0]]>>]

InitMention ==
    /\ kv = MentionRegistry
    /\ feed = [lo |-> 1, hi |-> 0]
    /\ scanMeta = Null
    /\ archive = <<>>
    /\ pc = [p \in Mentioners |-> "idle"]
    /\ data = [p \in Mentioners |-> Null]
    /\ loaded = [p \in Mentioners |-> 0]
    /\ attempt = [p \in Mentioners |-> 0]
    /\ result = [p \in Mentioners |-> [none |-> TRUE]]
    /\ task = [p \in Mentioners |-> Null]
    /\ reqs = 0
    /\ events = <<>>
    /\ now = 1
    /\ listed = <<>>
    /\ scanState = Null
    /\ probe = Null

MentionStep(m) ==
    \/ \E dt \in {0, 1} : MentionStart(m, FALSE, dt)
    \/ m = "m2" /\ MentionStart(m, TRUE, 0)
    \/ \E answer \in {"ok", "not-ok", "throw"} : MentionFetch(m, answer)
    \/ MentionArchiveRead(m)
    \/ MentionArchivePut(m)
    \/ MentionMerge(m)
    \/ MentionLoad(m)
    \/ MentionCheck(m)
    \/ MentionReread(m)
    \/ MentionPut(m)
    \/ MentionEmit(m)
    \/ MentionMetaPut(m)

NextMention ==
    \/ \E m \in Mentioners : MentionStep(m)
    \/ FeedArrive

SpecMention == InitMention /\ [][NextMention]_vars

\* the scans the listing request and the periodic trigger start: never a reset
IncrementalStep(m) ==
    \/ \E dt \in {0, 1} : MentionStart(m, FALSE, dt)
    \/ \E answer \in {"ok", "not-ok", "throw"} : MentionFetch(m, answer)
    \/ MentionArchiveRead(m)
    \/ MentionArchivePut(m)
    \/ MentionLoad(m)
    \/ MentionCheck(m)
    \/ MentionReread(m)
    \/ MentionPut(m)
    \/ MentionEmit(m)
    \/ MentionMetaPut(m)

NextIncremental ==
    \/ \E m \in Mentioners : IncrementalStep(m)
    \/ FeedArrive

SpecIncremental == InitMention /\ [][NextIncremental]_vars

\* full resets of one invocation after another, with nothing else running
ResetStep(m) ==
    \/ MentionStart(m, TRUE, 0)
    \/ \E answer \in {"ok", "not-ok", "throw"} : MentionFetch(m, answer)
    \/ MentionArchiveRead(m)
    \/ MentionArchivePut(m)
    \/ MentionMerge(m)
    \/ MentionLoad(m)
    \/ MentionCheck(m)
    \/ MentionPut(m)
    \/ MentionMetaPut(m)

\* the windows of the activity the API can show
FeedWindows ==
    {[lo |-> l, hi |-> h] : l \in 1..(MaxEntries + 1), h \in 0..MaxEntries}

\* the archives archiveMessages can have left: entries shown so far, newest
\* first
ArchivesUpTo(h) ==
    {NewestFirst({ArchivedForm(EntryOf(k)) : k \in S}) : S \in SUBSET (1..h)}

\* the registries earlier scans can have left
CountedRegistries ==
    {[MentionRegistry EXCEPT !.items[1].mentions.count = c] : c \in 0..MaxEntries}

InitReset ==
    /\ kv \in CountedRegistries
    /\ feed \in {f \in FeedWindows : f.lo <= f.hi + 1}
    /\ archive \in ArchivesUpTo(feed.hi)
    /\ scanMeta \in {Null, [lastScanAt |-> 1, processedIds |-> <<1>>]}
    /\ pc = [p \in Mentioners |-> "idle"]
    /\ data = [p \in Mentioners |-> Null]
    /\ loaded = [p \in Mentioners |-> 0]
    /\ attempt = [p \in Mentioners |-> 0]
    /\ result = [p \in Mentioners |-> [none |-> TRUE]]
    /\ task = [p \in Mentioners |-> Null]
    /\ reqs = 0
    /\ events = <<>>
    /\ now = 1
    /\ listed = <<>>
    /\ scanState = Null
    /\ probe = Null

NextReset == ResetStep("m2")

SpecReset == InitReset /\ [][NextReset]_vars

\* the stored mention count of a record
MentionCount(blob, id) ==
    LET items == ItemsOf(blob)
        idx == FindIndex(items, id)
    IN  IF idx = 0 \/ Falsy(items[idx], "mentions") THEN 0
        ELSE items[idx].mentions.count

\* the entries the activity API has shown so far that mention the record
ShownMentions(id) ==
    {k \in 1..feed.hi : MessageMatches(EntryOf(k), [id |-> id])}

\* C15: across any sequence and interleaving of incremental mention scans,
\* those of the listing request and of the periodic trigger included, one
\* activity entry increments a record's mention count at most once: the
\* count never exceeds the number of entries shown that mention the record.
C15_EntryCountedOnce ==
    \A id \in ItemIds : MentionCount(kv, id) <= Cardinality(ShownMentions(id))

\* C16: the stored mention count of a record never decreases except through
\* the save of a full-reset mention scan.
C16_CountNeverDecreases ==
    [][\A id \in ItemIds :
          MentionCount(kv', id) < MentionCount(kv, id) =>
              \E m \in Mentioners :
                  pc[m] = "put" /\ task[m].reset /\ kv' = SaveBlob(data[m])]_vars

\* the invocation's last run was a full reset that scanned
AfterReset(m) ==
    Has(result[m], "reset") /\ result[m].reset /\ result[m].scanned

\* C14: a full-reset mention scan run right after another, with the records,
\* the live feed and the archive unchanged in between, leaves every record's
\* mention count as the first run left it: the save of the second run changes
\* no count.
C14_ResetIdempotent ==
    [][\A m \in Mentioners :
          (pc[m] = "put" /\ task[m].reset /\ AfterReset(m)) =>
              \A id \in ItemIds : MentionCount(kv', id) = MentionCount(kv, id)]_vars

\* a second reset has saved, after merging an archived entry the feed no
\* longer shows, and the record has a count
C14_Witness ==
    /\ pc["m2"] = "meta" /\ task["m2"].reset /\ AfterReset("m2")
    /\ Len(task["m2"].messageEvents) > Len(ActivityEvents(feed))
    /\ MentionCount(kv, 1) > 1
    /\ kv.writeVersion >= 2

----------------------------------------------------------------------------
(* The actions of _handlePut: claim, unclaim, rate, claim_leadership.      *)
(* An invocation w acts for the account w.  The clock counts half days, so *)
(* that an inactivity between two whole numbers of days can be told from   *)
(* the whole number the response carries.                                  *)

\* `1000 * 60 * 60 * 24` in units of the clock
TicksPerDay == 2

\* `if (daysSinceActive < 30)`
LeadershipDays == 30

\* computeReputation(ratings); the average is kept in tenths:
\* `Math.round((sum / ratings.length) * 10) / 10`
RECURSIVE SumScores(_)
SumScores(ratings) ==
    IF ratings = <<>> THEN 0 ELSE Head(ratings).score + SumScores(Tail(ratings))

computeReputation(ratings) ==
    IF ratings = <<>> THEN [average |-> 0, count |-> 0]
    ELSE [average |-> (20 * SumScores(ratings) + Len(ratings)) \div (2 * Len(ratings)),
          count |-> Len(ratings)]

\* bumpLeaderActivity(item, agent)
bumpLeaderActivity(item, agent, t) ==
    IF ~Falsy(item, "leader") /\ item.leader.btcAddress = agent
    THEN [item EXCEPT !.leader = SetField(@, "lastActiveAt", t)]
    ELSE item

\* `item.ratings.findIndex(r => r.btcAddress === agent.btcAddress)`, 0 for -1
RatingIndex(ratings, agent) ==
    IF \E i \in DOMAIN ratings : ratings[i].btcAddress = agent
    THEN CHOOSE i \in DOMAIN ratings :
            ratings[i].btcAddress = agent
            /\ \A j \in 1..(i - 1) : ratings[j].btcAddress # agent
    ELSE 0

\* a rating that is always pushed
UpsertRatingPush(ratings, rating) == Append(ratings, rating)

\* the upsert of the rate action
UpsertRating(ratings, rating) ==
    IF RatingIndex(ratings, rating.btcAddress) # 0
    THEN [ratings EXCEPT ![RatingIndex(ratings, rating.btcAddress)] = rating]
    ELSE Append(ratings, rating)

\* a takeover that needs more than the 30 days
TooEarlyStrict(elapsed) == elapsed <= LeadershipDays * TicksPerDay

\* `daysSinceActive < 30`
TooEarly(elapsed) == elapsed < LeadershipDays * TicksPerDay

\* `Math.floor(daysSinceActive)`
WholeDays(elapsed) == elapsed \div TicksPerDay

\* the answer of a request that ends before saveData; task keeps the
\* request: its action, its record and its number
Answer(w, response, action, id) ==
    /\ result' = [result EXCEPT ![w] = response]
    /\ task' = [task EXCEPT ![w] = [action |-> action, id |-> id, n |-> reqs']]
    /\ UNCHANGED <<pc, data, loaded>>

\* the handler goes on to saveData with its changed copy
ToSave(w, d, idx, item, action) ==
    /\ data' = [data EXCEPT ![w] = [d EXCEPT !.items[idx] = item]]
    /\ loaded' = [loaded EXCEPT ![w] = d.writeVersion]
    /\ task' = [task EXCEPT ![w] = [action |-> action, id |-> item.id, n |-> reqs']]
    /\ pc' = [pc EXCEPT ![w] = "check"]
    /\ UNCHANGED result

\* what every action of _handlePut starts with
HandleFrame(w) ==
    /\ pc[w] = "idle" /\ reqs < MaxRequests
    /\ reqs' = reqs + 1
    /\ UNCHANGED <<kv, attempt, events, now, listed, scanFrame>>

\* action 'claim'
HandleClaim(w, id) ==
    /\ HandleFrame(w)
    /\ LET d == getData(kv)
           idx == FindIndex(d.items, id) IN
        IF idx = 0 THEN Answer(w, [status |-> "404"], "claim", id)
        ELSE IF ~Falsy(d.items[idx], "claimedBy")
        THEN Answer(w, [status |-> "409", claimedBy |-> d.items[idx].claimedBy], "claim", id)
        ELSE ToSave(w, d, idx,
                    bumpLeaderActivity(
                        addContributor(SetField(d.items[idx], "claimedBy",
                                                [btcAddress |-> w, claimedAt |-> now]), w),
                        w, now),
                    "claim")

\* action 'unclaim'
HandleUnclaim(w, id) ==
    /\ HandleFrame(w)
    /\ LET d == getData(kv)
           idx == FindIndex(d.items, id) IN
        IF idx = 0 THEN Answer(w, [status |-> "404"], "unclaim", id)
        ELSE IF Falsy(d.items[idx], "claimedBy") THEN Answer(w, [status |-> "400"], "unclaim", id)
        ELSE IF d.items[idx].claimedBy.btcAddress # w THEN Answer(w, [status |-> "403"], "unclaim", id)
        ELSE ToSave(w, d, idx,
                    bumpLeaderActivity(SetField(d.items[idx], "claimedBy", Null), w, now),
                    "unclaim")

\* action 'rate'
HandleRate(w, id, score) ==
    /\ HandleFrame(w)
    /\ LET d == getData(kv)
           idx == FindIndex(d.items, id) IN
        IF idx = 0 THEN Answer(w, [status |-> "404"], "rate", id)
        ELSE IF score < 1 \/ score > 5 THEN Answer(w, [status |-> "400"], "rate", id)
        ELSE LET item == d.items[idx]
                 old == IF Has(item, "ratings") THEN item.ratings ELSE <<>>
                 ratings == UpsertRating(old, [btcAddress |-> w, score |-> score])
                 rated == SetField(SetField(item, "ratings", ratings),
                                   "reputation", computeReputation(ratings))
             IN  ToSave(w, d, idx,
                        bumpLeaderActivity(addContributor(rated, w), w, now), "rate")

\* action 'claim_leadership'
HandleClaimLeadership(w, id) ==
    /\ HandleFrame(w)
    /\ LET d == getData(kv)
           idx == FindIndex(d.items, id) IN
        IF idx = 0 THEN Answer(w, [status |-> "404"], "claim_leadership", id)
        ELSE IF Falsy(d.items[idx], "leader") THEN Answer(w, [status |-> "400"], "claim_leadership", id)
        ELSE IF d.items[idx].leader.btcAddress = w THEN Answer(w, [status |-> "400"], "claim_leadership", id)
        ELSE LET leader == d.items[idx].leader
                 lastActive == IF Has(leader, "lastActiveAt") THEN leader.lastActiveAt ELSE 0
                 elapsed == now - lastActive
             IN  IF TooEarly(elapsed)
                 THEN Answer(w, [status |-> "400", days |-> WholeDays(elapsed),
                                 lastActiveAt |-> lastActive],
                             "claim_leadership", id)
                 ELSE ToSave(w, d, idx,
                             addContributor(
                                 SetField(d.items[idx], "leader",
                                          [btcAddress |-> w, assignedAt |-> now,
                                           lastActiveAt |-> now]), w),
                             "claim_leadership")

\* saveData, first half: the version test; handleConcurrencyError answers a
\* conflict with 409
HandleCheck(w) ==
    /\ pc[w] = "check"
    /\ IF SaveConflict(data[w], kv)
       THEN /\ pc' = [pc EXCEPT ![w] = "idle"]
            /\ result' = [result EXCEPT ![w] = [status |-> "409"]]
            /\ data' = [data EXCEPT ![w] = Null]
       ELSE /\ pc' = [pc EXCEPT ![w] = "put"]
            /\ UNCHANGED <<result, data>>
    /\ UNCHANGED <<kv, loaded, attempt, reqs, task, events, now, listed, scanFrame>>

\* saveData, second half: the put; the handler answers 200 with the record
HandleSave(w) ==
    /\ pc[w] = "put"
    /\ kv' = SaveBlob(data[w])
    /\ pc' = [pc EXCEPT ![w] = "idle"]
    /\ result' = [result EXCEPT ![w] = [status |-> "200"]]
    /\ data' = [data EXCEPT ![w] = Null]
    /\ UNCHANGED <<loaded, attempt, reqs, task, events, now, listed, scanFrame>>

\* a record founded and led by w1, last active at time 0, without a snapshot
PutRegistry ==
    [version |-> 10, writeVersion |-> 0,
     items |-> <<[id |-> 1, contributors |-> {"w1"}, status |-> "todo",
                  githubData |-> Null, claimedBy |-> Null,
                  leader |-> [btcAddress |-> "w1", lastActiveAt |-> 0],
                  ratings |-> <<>>, reputation |-> [average |-> 0, count |-> 0],
                  mentions |-> [count |-> 0]]>>]

\* 10 days, 29 and a half days, 30 days and 31 days after time 0
PutClocks == {10 * TicksPerDay, LeadershipDays * TicksPerDay - 1,
              LeadershipDays * TicksPerDay, 31 * TicksPerDay}

InitPut ==
    /\ kv = PutRegistry
    /\ now \in PutClocks
    /\ pc = [p \in Writers |-> "idle"]
    /\ data = [p \in Writers |-> Null]
    /\ loaded = [p \in Writers |-> 0]
    /\ attempt = [p \in Writers |-> 0]
    /\ result = [p \in Writers |-> [status |-> "none"]]
    /\ task = [p \in Writers |-> Null]
    /\ reqs = 0
    /\ events = <<>>
    /\ listed = <<>>
    /\ scanState = Null
    /\ archive = <<>>
    /\ feed = <<>>
    /\ scanMeta = Null
    /\ probe = Null

HandleStep(w) ==
    \/ \E id \in ItemIds : HandleClaim(w, id)
    \/ \E id \in ItemIds : HandleUnclaim(w, id)
    \/ \E id \in ItemIds, score \in {0, 1, 4, 6} : HandleRate(w, id, score)
    \/ \E id \in ItemIds : HandleClaimLeadership(w, id)
    \/ HandleCheck(w)
    \/ HandleSave(w)

NextPut == \E w \in Writers : HandleStep(w)

SpecPut == InitPut /\ [][NextPut]_vars

\* the accounts that rated a record
RatersOf(item) == {item.ratings[i].btcAddress : i \in DOMAIN item.ratings}

\* one entry per rating account, counted by reputation.count
RatingsConsistent(item) ==
    /\ Len(item.ratings) = Cardinality(RatersOf(item))
    /\ item.reputation.count = Cardinality(RatersOf(item))

\* the step is the start of w's request for the action
RequestStep(w, action) ==
    pc[w] = "idle" /\ task'[w] # task[w] /\ task'[w].action = action

\* the step is the put that answers w's request for the action with success
SuccessStep(w, action) ==
    pc[w] = "put" /\ pc'[w] = "idle" /\ task[w].action = action

\* C17: after any sequence of successful rate actions with scores 1 to 5 a
\* record's ratings hold at most one entry per rating account, a re-rating
\* replacing the account's entry, and reputation.count is the number of
\* distinct accounts that rated the record.
C17_RatingsUpsert ==
    [][/\ \A i \in DOMAIN ItemsOf(kv') : RatingsConsistent(ItemsOf(kv')[i])
       /\ \A w \in Writers :
             (RequestStep(w, "rate") /\ pc'[w] = "check") =>
                 LET idx == FindIndex(data'[w].items, task'[w].id)
                     old == getData(kv).items[idx]
                     new == data'[w].items[idx]
                 IN  /\ RatersOf(new) = RatersOf(old) \cup {w}
                     /\ RatingsConsistent(new)
                     /\ new.ratings[RatingIndex(new.ratings, w)].score \in 1..5]_vars

\* an account's second rating with another score is about to be saved: it
\* took the place of the first in a record two accounts have rated
C17_Witness ==
    \E w \in Writers :
        /\ pc[w] = "put" /\ task[w].action = "rate"
        /\ Len(kv.items[1].ratings) = 2
        /\ Len(data[w].items[1].ratings) = 2
        /\ kv.items[1].reputation.count = 2
        /\ kv.items[1].ratings[RatingIndex(kv.items[1].ratings, w)].score
              # data[w].items[1].ratings[RatingIndex(data[w].items[1].ratings, w)].score

\* the account that holds the claim on a record, "none" when it is free
ClaimedBy(blob, id) ==
    LET items == ItemsOf(blob)
        idx == FindIndex(items, id)
    IN  IF idx = 0 \/ Falsy(items[idx], "claimedBy") THEN "none"
        ELSE items[idx].claimedBy.btcAddress

\* C18: a record's claimedBy goes from empty to account A only through A's
\* claim, from A to empty only through A's unclaim, and never from A to
\* another account, under any interleaving of claim and unclaim requests and
\* background scan saves; so a claim answered with success is held until its
\* holder unclaims.
C18_ClaimTransitions ==
    [][\A id \in ItemIds :
          ClaimedBy(kv', id) # ClaimedBy(kv, id) =>
              \/ /\ ClaimedBy(kv, id) = "none"
                 /\ \E w \in Writers : w = ClaimedBy(kv', id) /\ SuccessStep(w, "claim")
              \/ /\ ClaimedBy(kv', id) = "none"
                 /\ \E w \in Writers : w = ClaimedBy(kv, id) /\ SuccessStep(w, "unclaim")]_vars

\* the stored leader of a record
LeaderOf(blob, id) == ItemsOf(blob)[FindIndex(ItemsOf(blob), id)].leader

\* C19: a claim_leadership request by an account other than the leader
\* passes, and its save makes the requester leader, if and only if at least
\* 30 days have passed since the leader's lastActiveAt; otherwise it is
\* rejected, the record is unchanged and the response carries the whole
\* number of days passed.
C19_LeadershipAfter30Days ==
    [][\A w \in Writers :
          /\ (RequestStep(w, "claim_leadership")
               /\ ~Falsy(getData(kv).items[1], "leader")
               /\ LeaderOf(kv, 1).btcAddress # w) =>
                  IF now - LeaderOf(kv, 1).lastActiveAt >= 30 * TicksPerDay
                  THEN /\ pc'[w] = "check"
                       /\ data'[w].items[1].leader.btcAddress = w
                       /\ data'[w].items[1].leader.lastActiveAt = now
                  ELSE /\ pc'[w] = "idle" /\ kv' = kv
                       /\ result'[w].status = "400"
                       /\ result'[w].days
                            = (now - LeaderOf(kv, 1).lastActiveAt) \div TicksPerDay
          /\ SuccessStep(w, "claim_leadership") =>
                  LeaderOf(kv', 1).btcAddress = w /\ result'[w].status = "200"]_vars

\* 31 days after the leader's last activity another account took the lead
C19_Witness ==
    /\ now = 31 * TicksPerDay
    /\ LeaderOf(kv, 1).btcAddress = "w2"
    /\ LeaderOf(kv, 1).lastActiveAt = now
    /\ result["w2"].status = "200" /\ task["w2"].action = "claim_leadership"

\* the stored status of a record
StatusOf(blob, id) == ItemsOf(blob)[FindIndex(ItemsOf(blob), id)].status

\* C20: after a successful claim on a record whose status is todo the
\* record's status is in-progress.
C20_ClaimStartsProgress ==
    [][\A w \in Writers :
          (SuccessStep(w, "claim") /\ StatusOf(kv, task[w].id) = "todo") =>
              StatusOf(kv', task[w].id) = "in-progress"]_vars

----------------------------------------------------------------------------
(* The orchestrator of refresh.js: one invocation runs the six background  *)
(* tasks one after the other under a time budget.  A task is modelled by   *)
(* what the orchestrator depends on: its getData, its external calls (one  *)
(* per record with a repository for the repository tasks, one activity     *)
(* fetch for the mention scan and the backfill), the time they take, and   *)
(* its saveRetry.  What a task changes in a record is abstracted to the    *)
(* record's `touched` flag.                                                *)

Orchestrators == {"o1"}

\* TIME_BUDGET_MS = 50_000, the clock of this specification counting 25 s
TIME_BUDGET_MS == 2

\* the tasks in the order onRequestGet awaits them, named by their report key
TaskOrder == <<"github", "mentions", "githubContributors", "githubEvents",
               "websites", "backfill">>

\* the value onRequestGet reports for a task it did not invoke
SkipReport(name) ==
    IF name = "mentions" THEN [scanned |-> FALSE, reason |-> "time_budget"]
    ELSE IF name = "backfill" THEN [backfilled |-> 0, timedOut |-> TRUE]
    ELSE [scannedRepos |-> 0, timedOut |-> TRUE]

\* a task not reached yet
NotReached == [reached |-> FALSE]

\* the external calls of a task: `for (const item of data.items)` with one
\* fetch per record; one activity fetch for the mention scan and the backfill
UnitsOf(name, d) ==
    IF name \in {"mentions", "backfill"} THEN 1 ELSE Len(d.items)

\* backfillMentions writes the events key only, never the registry
SavesRegistry(name) == name # "backfill"

\* the record a unit works on
UnitRecord(name, unit) == IF name \in {"mentions", "backfill"} THEN 1 ELSE unit

\* a test that lets every task start
BeforeDeadlineAlways(t, deadline) == TRUE

\* `Date.now() < deadline`
BeforeDeadline(t, deadline) == t < deadline

TaskName(o) == TaskOrder[task[o].idx]

Traced(o, ev, name) == Append(task[o].trace, [ev |-> ev, name |-> name, at |-> now])

\* onRequestGet: `start`, `deadline`, then `await refreshStaleGithubData(env, opts)`
OrchStart(o) ==
    /\ pc[o] = "idle"
    /\ task' = [task EXCEPT ![o] =
            [start |-> now, deadline |-> now + TIME_BUDGET_MS, idx |-> 1,
             unit |-> 0, changed |-> FALSE, calls |-> {},
             trace |-> <<[ev |-> "start", name |-> TaskOrder[1], at |-> now]>>]]
    /\ result' = [result EXCEPT ![o] =
            [status |-> "pending", report |-> [n \in Range(TaskOrder) |-> NotReached]]]
    /\ pc' = [pc EXCEPT ![o] = "load"]
    /\ UNCHANGED <<kv, data, loaded, attempt, reqs, events, now, listed, scanFrame>>

\* the task's getData
TaskLoad(o) ==
    /\ pc[o] = "load"
    /\ LET d == getData(kv) IN
        /\ data' = [data EXCEPT ![o] = d]
        /\ loaded' = [loaded EXCEPT ![o] = d.writeVersion]
    /\ task' = [task EXCEPT ![o].unit = 1, ![o].changed = FALSE]
    /\ attempt' = [attempt EXCEPT ![o] = 1]
    /\ pc' = [pc EXCEPT ![o] = "unit"]
    /\ UNCHANGED <<kv, result, reqs, events, now, listed, scanFrame>>

\* one unit of a task's loop: the external call starts now, takes dt, and
\* its answer changes the record or not; after the last unit
\* `if (changed) await saveRetry(env, data)`
TaskUnit(o, dt, hit) ==
    /\ pc[o] = "unit"
    /\ LET name == TaskName(o)
           n == UnitsOf(name, data[o])
           i == UnitRecord(name, task[o].unit)
           touch == hit /\ SavesRegistry(name)
           changed2 == task[o].changed \/ touch
           last == task[o].unit >= n IN
        /\ data' = [data EXCEPT ![o] =
                IF touch THEN [@ EXCEPT !.items[i].touched = TRUE] ELSE @]
        /\ task' = [task EXCEPT
                ![o].unit = @ + 1,
                ![o].changed = changed2,
                ![o].calls = @ \cup {[name |-> name, unit |-> task[o].unit, at |-> now]}]
        /\ now' = now + dt
        /\ pc' = [pc EXCEPT ![o] =
                IF ~last THEN "unit" ELSE IF changed2 THEN "check" ELSE "return"]
    /\ UNCHANGED <<kv, loaded, attempt, result, reqs, events, listed, scanFrame>>

\* saveRetry inside a task: saveData's version test; at the last attempt the
\* ConcurrencyError is rethrown, the task rejects, and onRequestGet, which
\* has no try around its awaits, rejects with it
TaskCheck(o) ==
    /\ pc[o] = "check"
    /\ IF SaveConflict(data[o], kv)
       THEN IF LastAttempt(attempt[o])
            THEN /\ pc' = [pc EXCEPT ![o] = "failed"]
                 /\ result' = [result EXCEPT ![o].status = "500"]
                 /\ task' = [task EXCEPT ![o].trace = Traced(o, "threw", TaskName(o))]
            ELSE /\ pc' = [pc EXCEPT ![o] = "backoff"]
                 /\ UNCHANGED <<result, task>>
       ELSE /\ pc' = [pc EXCEPT ![o] = "put"]
            /\ UNCHANGED <<result, task>>
    /\ UNCHANGED <<kv, data, loaded, attempt, reqs, events, now, listed, scanFrame>>

\* saveRetry after the backoff
TaskReread(o) ==
    /\ pc[o] = "backoff"
    /\ data' = [data EXCEPT ![o].writeVersion = WriteVersionOf(kv)]
    /\ attempt' = [attempt EXCEPT ![o] = @ + 1]
    /\ pc' = [pc EXCEPT ![o] = "check"]
    /\ UNCHANGED <<kv, loaded, result, reqs, task, events, now, listed, scanFrame>>

\* saveData's put inside saveRetry
TaskPut(o) ==
    /\ pc[o] = "put"
    /\ kv' = SaveBlob(data[o])
    /\ pc' = [pc EXCEPT ![o] = "return"]
    /\ UNCHANGED <<data, loaded, attempt, result, reqs, task, events, now, listed, scanFrame>>

\* the report after the tasks from index j on were skipped
SkipFrom(report, j) ==
    [n \in DOMAIN report |->
        IF \E k \in j..Len(TaskOrder) : TaskOrder[k] = n THEN SkipReport(n) ELSE report[n]]

RECURSIVE SkipTrace(_, _, _)
SkipTrace(trace, j, t) ==
    IF j > Len(TaskOrder) THEN trace
    ELSE SkipTrace(Append(trace, [ev |-> "skip", name |-> TaskOrder[j], at |-> t]), j + 1, t)

\* the task returns; onRequestGet stores its result and goes on with
\* `Date.now() < deadline ? await next(...) : {... timedOut ...}`.  No await
\* separates the tests of tasks that are skipped, so once one is skipped the
\* rest is too, and the response is built.
TaskReturn(o) ==
    /\ pc[o] = "return"
    /\ LET name == TaskName(o)
           j == task[o].idx + 1
           ended == Traced(o, "end", name)
           report2 == [result[o].report EXCEPT ![name] =
                          [reached |-> TRUE, changed |-> task[o].changed]] IN
        IF j > Len(TaskOrder)
        THEN /\ pc' = [pc EXCEPT ![o] = "done"]
             /\ result' = [result EXCEPT ![o] = [status |-> "200", report |-> report2]]
             /\ task' = [task EXCEPT ![o].trace = ended]
        ELSE IF BeforeDeadline(now, task[o].deadline)
        THEN /\ pc' = [pc EXCEPT ![o] = "load"]
             /\ result' = [result EXCEPT ![o].report = report2]
             /\ task' = [task EXCEPT ![o].idx = j,
                    ![o].trace = Append(ended, [ev |-> "start", name |-> TaskOrder[j], at |-> now])]
        ELSE /\ pc' = [pc EXCEPT ![o] = "done"]
             /\ result' = [result EXCEPT ![o] =
                    [status |-> "200", report |-> SkipFrom(report2, j)]]
             /\ task' = [task EXCEPT ![o].trace = SkipTrace(ended, j, now)]
    /\ data' = [data EXCEPT ![o] = Null]
    /\ UNCHANGED <<kv, loaded, attempt, reqs, events, now, listed, scanFrame>>

\* two records with a repository each
OrchRegistry ==
    [version |-> 10, writeVersion |-> 0,
     items |-> <<[id |-> 1, contributors |-> {}, touched |-> FALSE],
                 [id |-> 2, contributors |-> {}, touched |-> FALSE]>>]

\* the time an external call takes, in clock units
CallTimes == {0, 1}

InitOrch ==
    /\ kv = OrchRegistry
    /\ now = 0
    /\ pc = [p \in Orchestrators |-> "idle"]
    /\ data = [p \in Orchestrators |-> Null]
    /\ loaded = [p \in Orchestrators |-> 0]
    /\ attempt = [p \in Orchestrators |-> 0]
    /\ result = [p \in Orchestrators |-> "none"]
    /\ task = [p \in Orchestrators |-> Null]
    /\ reqs = 0
    /\ events = <<>>
    /\ listed = <<>>
    /\ scanState = Null
    /\ archive = <<>>
    /\ feed = <<>>
    /\ scanMeta = Null
    /\ probe = Null

OrchStep(o) ==
    \/ OrchStart(o)
    \/ TaskLoad(o)
    \/ \E dt \in CallTimes, hit \in BOOLEAN : TaskUnit(o, dt, hit)
    \/ TaskCheck(o)
    \/ TaskReread(o)
    \/ TaskPut(o)
    \/ TaskReturn(o)

NextOrch ==
    \/ \E o \in Orchestrators : OrchStep(o)
    \/ OtherCommit

SpecOrch == InitOrch /\ [][NextOrch]_vars

IsPrefix(s, t) == Len(s) <= Len(t) /\ SubSeq(t, 1, Len(s)) = s

Invoked(o) == pc[o] # "idle" /\ task[o] # Null

\* C21: within one invocation the tasks take their turns in the fixed order,
\* a task starts only right after the one before it ended (never while
\* another runs), every started task started before the deadline, and a task
\* whose turn comes at or after the deadline is not invoked (it makes no
\* call) and is reported as skipped for the time budget
C21_OrderedAndSkipped ==
    \A o \in Orchestrators : Invoked(o) =>
        LET trace == task[o].trace
            IsTurn(e) == e.ev \in {"start", "skip"}
            turns == SelectSeq(trace, IsTurn) IN
        /\ IsPrefix([i \in DOMAIN turns |-> turns[i].name], TaskOrder)
        /\ \A i \in DOMAIN trace :
            /\ (trace[i].ev = "start" /\ i > 1) => trace[i - 1].ev = "end"
            /\ trace[i].ev \in {"end", "threw"} =>
                    trace[i - 1].ev = "start" /\ trace[i - 1].name = trace[i].name
            /\ trace[i].ev = "start" => trace[i].at < task[o].deadline
            /\ trace[i].ev = "skip" =>
                    /\ trace[i].at >= task[o].deadline
                    /\ result[o].report[trace[i].name] = SkipReport(trace[i].name)
                    /\ \A c \in task[o].calls : c.name # trace[i].name

\* a task was skipped for the time budget, after others ran and changed records
C21_Witness ==
    \E o \in Orchestrators :
        /\ pc[o] = "done"
        /\ result[o].report["github"] = [reached |-> TRUE, changed |-> TRUE]
        /\ result[o].report["mentions"] \in {[reached |-> TRUE, changed |-> c] : c \in BOOLEAN}
        /\ result[o].report["githubContributors"] = SkipReport("githubContributors")
        /\ result[o].report["backfill"] = SkipReport("backfill")

\* C22: once the deadline of the invocation has passed no task starts an
\* external call for a further record: every call starts before the deadline
C22_NoCallAfterDeadline ==
    \A o \in Orchestrators : Invoked(o) =>
        \A c \in task[o].calls : c.at < task[o].deadline

\* C23: a task that exhausts its save retries does not fail the invocation:
\* the orchestrator never ends by rejecting
C23_ExhaustionKeepsReport ==
    \A o \in Orchestrators : pc[o] # "failed"


----------------------------------------------------------------------------
(* Input validation of the interactive requests: _handlePost and the       *)
(* deliverable, rate, add_goal and standard-field paths of _handlePut.      *)
(* Texts are sequences of characters, as in the matcher.                    *)

\* the index after the longest run of characters outside `stop` from i on
RECURSIVE RunEnd(_, _, _)
RunEnd(s, i, stop) ==
    IF i <= Len(s) /\ s[i] \notin stop THEN RunEnd(s, i + 1, stop) ELSE i

\* s continues with p at index i
At(s, i, p) == i + Len(p) - 1 <= Len(s) /\ SubSeq(s, i, i + Len(p) - 1) = p

\* `github\.com\/([^/]+)\/([^/]+)\/(issues|pull)\/(\d+)` matched at i: the kind, or <<>>
IssueOrPullAt(s, i) ==
    LET a == i + Len(GithubCom)
        b == RunEnd(s, a, {"/"})
        c == RunEnd(s, b + 1, {"/"})
        kind == IF At(s, c, <<"/", "i", "s", "s", "u", "e", "s", "/">>) THEN <<"i", "s", "s", "u", "e">>
                ELSE IF At(s, c, <<"/", "p", "u", "l", "l", "/">>) THEN <<"p", "r">> ELSE <<>>
        d == IF kind = <<"i", "s", "s", "u", "e">> THEN c + 8 ELSE c + 6
    IN  IF At(s, i, GithubCom) /\ b > a /\ At(s, b, <<"/">>) /\ c > b + 1
           /\ kind # <<>> /\ d <= Len(s) /\ s[d] \in Range(Digits)
        THEN kind ELSE <<>>

\* `github\.com\/([^/]+)\/([^/?#]+)` matched at i
RepoAt(s, i) ==
    LET a == i + Len(GithubCom)
        b == RunEnd(s, a, {"/"})
    IN  At(s, i, GithubCom) /\ b > a /\ At(s, b, <<"/">>)
        /\ RunEnd(s, b + 1, {"/", "?", "#"}) > b + 1

\* parseGithubUrl(url): the type of the reference, "none" standing for null
parseGithubUrl(url) ==
    IF url = <<>> THEN "none"
    ELSE IF \E i \in DOMAIN url : IssueOrPullAt(url, i) = <<"p", "r">> /\
                \A j \in 1..(i - 1) : IssueOrPullAt(url, j) = <<>> THEN "pr"
    ELSE IF \E i \in DOMAIN url : IssueOrPullAt(url, i) # <<>> THEN "issue"
    ELSE IF \E i \in DOMAIN url : RepoAt(url, i) THEN "repo"
    ELSE "none"

\* `/^https?:\/\/(www\.)?github\.com\/[^/]+\/[^/]+/`
MatchesGithubUrl(url) ==
    \E p \in GithubPrefixes :
        /\ StartsWith(url, p)
        /\ LET a == Len(p) + 1
               b == RunEnd(url, a, {"/"})
           IN  b > a /\ At(url, b, <<"/">>) /\ RunEnd(url, b + 1, {"/"}) > b + 1

\* `new URL(text)` does not throw: a scheme of letters before the first
\* colon and something after it
ParsesAsUrl(text) ==
    LET c == RunEnd(text, 1, {":"})
    IN  c > 1 /\ c < Len(text)
        /\ \A i \in 1..(c - 1) : text[i] \in (Range(UpperLetters) \cup Range(LowerLetters))
        /\ Whitespace \cap Range(text) = {}

\* _handlePost's tests of the body, in their order: the error, or "ok"
PostRejects(body) ==
    IF trim(body.title) = <<>> THEN "title"
    ELSE IF trim(body.githubUrl) = <<>> THEN "githubUrl required"
    ELSE IF ~MatchesGithubUrl(trim(body.githubUrl)) THEN "githubUrl invalid"
    ELSE IF parseGithubUrl(trim(body.githubUrl)) # "repo" THEN "githubUrl not a repo"
    ELSE "ok"

\* `!Number.isInteger(score) || score < 1 || score > 5`
ScoreRejected(score) == ~score.integer \/ score.value < 1 \/ score.value > 5

\* `review.length > 280` after the trim
ReviewRejected(review) == Len(trim(review)) > 280

\* add_goal: `!title` or `title.length > 140` after the trim
GoalRejected(title) == trim(title) = <<>> \/ Len(trim(title)) > 140

\* the deliverable's `!d.url || !d.url.trim()` and `new URL(d.url.trim())`
DeliverableRejected(url) == trim(url) = <<>> \/ ~ParsesAsUrl(trim(url))

\* requests started in one behaviour of this specification
MaxInputs == 2

\* what every request of this specification starts with
InputFrame(w) == HandleFrame(w) /\ reqs < MaxInputs

\* the answer of a request that ends before saveData, with the input kept
Reject(w, action, id, input) ==
    /\ result' = [result EXCEPT ![w] = [status |-> "400"]]
    /\ task' = [task EXCEPT ![w] = [action |-> action, id |-> id, n |-> reqs', input |-> input]]
    /\ UNCHANGED <<pc, data, loaded>>

\* the handler goes on to saveData with its changed copy, with the input kept
Accept(w, d, action, id, input) ==
    /\ data' = [data EXCEPT ![w] = d]
    /\ loaded' = [loaded EXCEPT ![w] = d.writeVersion]
    /\ task' = [task EXCEPT ![w] = [action |-> action, id |-> id, n |-> reqs', input |-> input]]
    /\ pc' = [pc EXCEPT ![w] = "check"]
    /\ UNCHANGED result

\* _handlePost: the tests of the body, fetchGithubData (its answer, or the
\* default snapshot when it is null), getData, push; saveData follows
InputCreate(w, id, body, answer) ==
    /\ InputFrame(w)
    /\ IF PostRejects(body) # "ok" THEN Reject(w, "create", id, body)
       ELSE LET d == getData(kv)
                fetched == fetchGithubData([type |-> "repo"], answer, now)
                ghData == IF fetched # Null THEN fetched
                          ELSE [type |-> "repo", state |-> "active", merged |-> FALSE,
                                fetchedAt |-> Null]
                item == [id |-> id, title |-> trim(body.title),
                         githubUrl |-> trim(body.githubUrl), githubData |-> ghData,
                         contributors |-> {w},
                         leader |-> [btcAddress |-> w, assignedAt |-> now, lastActiveAt |-> now],
                         status |-> deriveStatus([githubData |-> ghData]),
                         claimedBy |-> Null, deliverables |-> <<>>, ratings |-> <<>>,
                         reputation |-> [average |-> 0, count |-> 0], goals |-> <<>>,
                         mentions |-> [count |-> 0]]
            IN  /\ id \notin IdsOf(d.items)
                /\ Accept(w, [d EXCEPT !.items = Append(@, item)], "create", id, body)

\* what the paths of _handlePut end with before saveData
Touched(item, w) == bumpLeaderActivity(addContributor(item, w), w, now)

\* _handlePut with `body.deliverable`
InputDeliverable(w, id, url) ==
    /\ InputFrame(w)
    /\ LET d == getData(kv)
           idx == FindIndex(d.items, id) IN
        /\ idx # 0
        /\ IF DeliverableRejected(url) THEN Reject(w, "deliverable", id, url)
           ELSE Accept(w, [d EXCEPT !.items[idx] =
                            Touched([@ EXCEPT !.deliverables =
                                        Append(@, [url |-> trim(url), addedBy |-> w])], w)],
                       "deliverable", id, url)

\* _handlePut, action 'rate', with the score and the review
InputRate(w, id, score, review) ==
    /\ InputFrame(w)
    /\ LET d == getData(kv)
           idx == FindIndex(d.items, id) IN
        /\ idx # 0
        /\ IF ScoreRejected(score) \/ ReviewRejected(review)
           THEN Reject(w, "rate", id, [score |-> score, review |-> review])
           ELSE LET ratings == UpsertRating(d.items[idx].ratings,
                                    [btcAddress |-> w, score |-> score.value,
                                     review |-> trim(review)])
                IN  Accept(w, [d EXCEPT !.items[idx] =
                                Touched([@ EXCEPT !.ratings = ratings,
                                            !.reputation = computeReputation(ratings)], w)],
                           "rate", id, [score |-> score, review |-> review])

\* `item.goalHistory`, empty when the record has none
GoalHistoryOf(item) == IF Has(item, "goalHistory") THEN item.goalHistory ELSE <<>>

\* the id of a new goal: `'g_' + crypto.randomUUID().slice(0, 8)`, one that
\* no goal of the record has
NewGoalId(item) == Len(GoalHistoryOf(item)) + Len(item.goals) + 1

\* an add_goal that forgets the goals it replaces
WithGoalOnly(item, goal) == [item EXCEPT !.goals = <<goal>>]

\* the goals at hand are pushed to goalHistory, the new goal is the only goal
WithGoal(item, goal) ==
    [(IF item.goals # <<>>
      THEN SetField(item, "goalHistory", GoalHistoryOf(item) \o item.goals)
      ELSE item) EXCEPT !.goals = <<goal>>]

\* action 'add_goal' after the frame: leader only, then the title
AddGoal(w, id, title) ==
    LET d == getData(kv)
        idx == FindIndex(d.items, id) IN
    /\ idx # 0
    /\ IF Falsy(d.items[idx], "leader") \/ d.items[idx].leader.btcAddress # w
       THEN /\ result' = [result EXCEPT ![w] = [status |-> "403"]]
            /\ task' = [task EXCEPT ![w] = [action |-> "forbidden", id |-> id, n |-> reqs',
                                            input |-> title]]
            /\ UNCHANGED <<pc, data, loaded>>
       ELSE IF GoalRejected(title) THEN Reject(w, "add_goal", id, title)
       ELSE Accept(w, [d EXCEPT !.items[idx] =
                        Touched(WithGoal(@, [id |-> NewGoalId(@), title |-> trim(title),
                                             completed |-> FALSE]), w)],
                   "add_goal", id, title)

\* _handlePut, action 'add_goal'
InputAddGoal(w, id, title) == InputFrame(w) /\ AddGoal(w, id, title)

\* _handlePut, standard field update with `body.githubUrl`: the trimmed text
\* is stored as it is, and the snapshot is what fetchGithubData answers for
\* it (null when the text is no reference or the fetch failed, the not-found
\* marker on 404), or null when the text is empty
InputEdit(w, id, githubUrl, answer) ==
    /\ InputFrame(w)
    /\ LET d == getData(kv)
           idx == FindIndex(d.items, id)
           url == trim(githubUrl)
           kind == parseGithubUrl(url)
           gd == IF url = <<>> \/ kind = "none" THEN Null
                 ELSE fetchGithubData([type |-> kind], answer, now) IN
        /\ idx # 0
        /\ (url # <<>> /\ kind # "none") => answer \in ServiceAnswers([type |-> kind])
        /\ (url = <<>> \/ kind = "none") => answer = Null
        /\ Accept(w, [d EXCEPT !.items[idx] =
                        Touched([@ EXCEPT !.githubUrl = url, !.githubData = gd], w)],
                  "edit", id, githubUrl)

\* n characters
Chars(n) == [i \in 1..n |-> "x"]

Padded(s) == <<" ">> \o s \o <<" ">>

RepoUrl == <<"h", "t", "t", "p", "s", ":", "/", "/", "g", "i", "t", "h", "u", "b", ".", "c", "o", "m", "/", "o", "/", "r">>

PullUrl == <<"h", "t", "t", "p", "s", ":", "/", "/", "g", "i", "t", "h", "u", "b", ".", "c", "o", "m", "/", "o", "/", "r", "/", "p", "u", "l", "l", "/", "7">>

\* texts sent as a repository URL
UrlInputs ==
    {RepoUrl, Padded(RepoUrl), PullUrl, <<"h", "t", "t", "p", "s", ":", "/", "/", "g", "i", "t", "h", "u", "b", ".", "c", "o", "m", "/", "o">>,
     <<"h", "t", "t", "p", "s", ":", "/", "/", "x", ".", "i", "o", "/", "g", "i", "t", "h", "u", "b", ".", "c", "o", "m", "/", "o", "/", "r">>, <<"n", "o", "n", "s", "e", "n", "s", "e">>, <<>>}

\* texts sent as a deliverable URL
DeliverableInputs == {<<"h", "t", "t", "p", "s", ":", "/", "/", "x", ".", "i", "o", "/", "d">>, <<"x", ".", "i", "o", "/", "d">>, <<" ", " ", " ">>, <<"a", " ", "b", ":", "c">>}

\* scores: integers around the range, and 3.5
ScoreInputs ==
    {[integer |-> TRUE, value |-> v] : v \in {0, 1, 5, 6}} \cup {[integer |-> FALSE, value |-> 3]}

ReviewInputs == {<<>>, Chars(280), Padded(Chars(280)), Chars(281)}

GoalInputs == {<<>>, <<" ">>, Chars(140), Padded(Chars(140)), Chars(141)}

TitleInputs == {<<"T">>, <<" ">>}

\* one record founded and led by w1, with a fetched snapshot
InputRegistry ==
    [version |-> 10, writeVersion |-> 0,
     items |-> <<[id |-> 1, title |-> <<"A">>, githubUrl |-> RepoUrl,
                  githubData |-> [type |-> "repo", state |-> "active", merged |-> FALSE,
                                  fetchedAt |-> 0],
                  contributors |-> {"w1"},
                  leader |-> [btcAddress |-> "w1", assignedAt |-> 0, lastActiveAt |-> 0],
                  status |-> "in-progress", claimedBy |-> Null, deliverables |-> <<>>,
                  ratings |-> <<>>, reputation |-> [average |-> 0, count |-> 0],
                  goals |-> <<>>, mentions |-> [count |-> 0]]>>]

InitInput ==
    /\ kv = InputRegistry
    /\ now = 1
    /\ pc = [p \in Writers |-> "idle"]
    /\ data = [p \in Writers |-> Null]
    /\ loaded = [p \in Writers |-> 0]
    /\ attempt = [p \in Writers |-> 0]
    /\ result = [p \in Writers |-> [status |-> "none"]]
    /\ task = [p \in Writers |-> Null]
    /\ reqs = 0
    /\ events = <<>>
    /\ listed = <<>>
    /\ scanState = Null
    /\ archive = <<>>
    /\ feed = <<>>
    /\ scanMeta = Null
    /\ probe = Null

InputStep(w) ==
    \/ \E t \in TitleInputs, u \in UrlInputs, a \in ServiceAnswers([type |-> "repo"]) :
            InputCreate(w, 2, [title |-> t, githubUrl |-> u], a)
    \/ \E u \in DeliverableInputs : InputDeliverable(w, 1, u)
    \/ \E s \in ScoreInputs, r \in ReviewInputs : InputRate(w, 1, s, r)
    \/ \E t \in GoalInputs : InputAddGoal(w, 1, t)
    \/ \E u \in UrlInputs, a \in UNION {ServiceAnswers([type |-> k]) : k \in {"repo", "pr", "issue"}} :
            InputEdit(w, 1, u, a)
    \/ HandleCheck(w)
    \/ HandleSave(w)

NextInput == \E w \in Writers : InputStep(w)

SpecInput == InitInput /\ [][NextInput]_vars

\* a text that is a reference to a repository: a GitHub URL of an owner and
\* a repository, and not of an issue or a pull request
IsRepoReference(url) == MatchesGithubUrl(trim(url)) /\ parseGithubUrl(trim(url)) = "repo"

\* the malformed inputs of a request, by the kind of the request
Malformed(t) ==
    IF t.action = "create" THEN trim(t.input.title) = <<>> \/ ~IsRepoReference(t.input.githubUrl)
    ELSE IF t.action = "deliverable" THEN ~ParsesAsUrl(trim(t.input))
    ELSE IF t.action = "rate"
    THEN \/ ~t.input.score.integer
         \/ t.input.score.value \notin 1..5
         \/ Len(trim(t.input.review)) > 280
    ELSE IF t.action = "add_goal" THEN Len(trim(t.input)) \notin 1..140
    ELSE IF t.action = "edit" THEN trim(t.input) # <<>> /\ ~IsRepoReference(t.input)
    ELSE FALSE

\* C24: a request with malformed input (score, review, goal title,
\* deliverable URL, repository URL on create and on edit) is answered 400 and
\* goes on to no write: it never reaches saveData
C24_MalformedRejected ==
    \A w \in Writers :
        (task[w] # Null /\ Malformed(task[w])) =>
            pc[w] = "idle" /\ result[w].status = "400"

\* C27: a not-found answer of the repository service never takes the place
\* of a record's stored snapshot: no stored record has the bare not-found
\* marker for its snapshot, after a create or an edit as after a refresh
C27_NotFoundNeverStored ==
    \A i \in DOMAIN kv.items : kv.items[i].githubData # NotFound


----------------------------------------------------------------------------
(* README extraction on written texts.  A README is a sequence of tokens   *)
(* separated by one space: a word (its lower-case form, its length and     *)
(* whether it is written in capitals), a URL, or a stretch of other text   *)
(* of a given length.  ContentOf turns it into the text form of the        *)
(* extraction above: every URL with the keywords found in the 200          *)
(* characters before it.                                                   *)

Word(text, len, caps) == [kind |-> "word", text |-> text, len |-> len, caps |-> caps]

Stretch(len) == [kind |-> "text", len |-> len]

\* the characters a written URL takes in the model
UrlChars == 24

UrlToken(url) == [kind |-> "url", url |-> url, len |-> UrlChars]

\* `content.slice(Math.max(0, idx - 200), idx)`
ContextWindow == 200

\* URL_CONTEXT_KEYWORDS, the flag `i` making the case of a word irrelevant
URL_CONTEXT_KEYWORDS ==
    {<<"live">>, <<"demo">>, <<"website">>, <<"deployed">>, <<"homepage">>, <<"visit">>,
     <<"hosted">>, <<"app">>, <<"try", "it">>, <<"production">>, <<"dashboard">>}

\* URL_NEGATIVE_KEYWORDS
URL_NEGATIVE_KEYWORDS ==
    {<<"built", "by">>, <<"created", "by">>, <<"credits">>, <<"author">>,
     <<"maintained", "by">>, <<"made", "by">>, <<"powered", "by">>}

\* the words `\b...\b` can match in a token: the word itself, the labels and
\* path segments of a URL (a URL's scheme keeps a phrase from running into
\* it), nothing of other text
WordsOf(t) ==
    IF t.kind = "word" THEN <<t.text>>
    ELSE IF t.kind = "url" THEN <<"https">> \o t.url.host \o t.url.path
    ELSE <<"...">>

\* the index in the text at which token i starts
RECURSIVE StartOf(_, _)
StartOf(tokens, i) ==
    IF i <= 1 THEN 0 ELSE StartOf(tokens, i - 1) + tokens[i - 1].len + 1

\* the words of the tokens that start in the window before token i
RECURSIVE WordsBefore(_, _, _)
WordsBefore(tokens, i, j) ==
    IF j >= i THEN <<>>
    ELSE (IF StartOf(tokens, i) - StartOf(tokens, j) <= ContextWindow
          THEN WordsOf(tokens[j]) ELSE <<"...">>) \o WordsBefore(tokens, i, j + 1)

\* `KEYWORDS.test(ctx)` for the URL at token i
Near(tokens, i, keywords) ==
    \E k \in keywords : StrIncludes(WordsBefore(tokens, i, 1), k)

\* the text as the extraction reads it
ContentOf(tokens) ==
    LET IsUrl(i) == tokens[i].kind = "url"
        at == SelectSeq([i \in DOMAIN tokens |-> i], IsUrl)
    IN  [k \in DOMAIN at |->
            Written(tokens[at[k]].url,
                    Near(tokens, at[k], URL_CONTEXT_KEYWORDS),
                    Near(tokens, at[k], URL_NEGATIVE_KEYWORDS))]

\* one call of extractUrlFromReadme(content, skipUrls)
ExtractProbe ==
    /\ probe # Null
    /\ ~probe.done
    /\ probe' = [probe EXCEPT
                    !.done = TRUE,
                    !.outcome = extractUrlFromReadme(ContentOf(probe.readme), probe.skip)]
    /\ UNCHANGED <<kv, pc, data, loaded, attempt, result, reqs, task, events, now,
                   listed, scanState, archive, feed, scanMeta>>

\* the longest README, in tokens
MaxTokens == 4

PagesUrl == [host |-> <<"demo-app", "pages", "dev">>, path |-> <<>>]
PagesApiUrl == [host |-> <<"demo-app", "pages", "dev">>, path |-> <<"api", "v1">>]
CustomUrl == [host |-> <<"aibtc", "com">>, path |-> <<"demo">>]

ReadmeTokens ==
    {Word("demo", 4, FALSE), Word("demo", 4, TRUE), Word("built", 5, FALSE),
     Word("by", 2, FALSE), Stretch(200),
     UrlToken(SourceUrl), UrlToken(PagesUrl), UrlToken(PagesApiUrl), UrlToken(CustomUrl)}

Readmes == UNION {[1..n -> ReadmeTokens] : n \in 0..MaxTokens}

InitReadme ==
    /\ probe \in {[readme |-> r, skip |-> s, done |-> FALSE, outcome |-> Null] :
                     r \in Readmes, s \in {{}, {PagesUrl}}}
    /\ kv = Null
    /\ pc = <<>>
    /\ data = <<>>
    /\ loaded = <<>>
    /\ attempt = <<>>
    /\ result = <<>>
    /\ reqs = 0
    /\ task = <<>>
    /\ events = <<>>
    /\ now = 1
    /\ listed = <<>>
    /\ scanState = Null
    /\ archive = <<>>
    /\ feed = <<>>
    /\ scanMeta = Null

NextReadme == ExtractProbe

SpecReadme == InitReadme /\ [][NextReadme]_vars

\* the URLs written in a README
UrlsIn(tokens) == {tokens[i].url : i \in {j \in DOMAIN tokens : tokens[j].kind = "url"}}

\* where a URL is first written
FirstWritten(tokens, url) ==
    CHOOSE i \in DOMAIN tokens :
        /\ tokens[i].kind = "url" /\ tokens[i].url = url
        /\ \A j \in 1..(i - 1) : ~(tokens[j].kind = "url" /\ tokens[j].url = url)

\* the keyword-adjusted score of a URL of a README: its deployment score, 5
\* more after a context keyword, 4 less after an attribution keyword
Adjusted(tokens, url) ==
    LET at == FirstWritten(tokens, url)
        plus == IF Near(tokens, at, URL_CONTEXT_KEYWORDS) THEN 5 ELSE 0
        minus == IF Near(tokens, at, URL_NEGATIVE_KEYWORDS) THEN 4 ELSE 0
    IN  isDeploymentUrl(url) + plus - minus

\* the URLs of a README that may be returned
Candidates(tokens, skip) ==
    {u \in UrlsIn(tokens) \ skip : isDeploymentUrl(u) > 0 /\ Adjusted(tokens, u) >= 5}

----------------------------------------------------------------------------
(* Website discovery: precedence of homepage-sourced claims                *)

\* the record holds a claim of the given kind: sourced from the homepage, or not
HoldsClaim(item, fromHomepage) ==
    /\ ~Falsy(item, "website")
    /\ (item.website.source = "homepage") = fromHomepage

\* the step is the save of d's run: kv is the registry the run started from
\* (other commits in between change its version only), kv' the one it leaves
WebSaveStep(d) == d \in Discoverers /\ pc[d] = "put" /\ pc'[d] = "scanput"

\* C26: when a discovery run starts with a homepage-sourced claim and a claim
\* of another source on the same URL, after the run the record of the other
\* source no longer holds that URL, in whichever order the two records are
\* stored; and a homepage-sourced claim whose URL still passes the noise
\* filter is still there after the run
C26_HomepagePrecedence ==
    [][\A d \in DOMAIN pc : WebSaveStep(d) =>
          LET before == getData(kv).items
              after == kv'.items IN
          /\ \A i, j \in DOMAIN before :
                (/\ i # j
                 /\ HoldsClaim(before[i], TRUE) /\ HoldsClaim(before[j], FALSE)
                 /\ before[i].website.url = before[j].website.url)
                    => (Falsy(after[j], "website")
                        \/ after[j].website.url # before[j].website.url)
          /\ \A i \in DOMAIN before :
                (/\ HoldsClaim(before[i], TRUE)
                 /\ isDeploymentUrl(SyncHomepage(before[i]).website.url) > 0)
                    => HoldsClaim(after[i], TRUE)]_vars

\* the README request of the iteration at hand is made and answered by readme
ReadmeStep(d, readme) ==
    /\ pc[d] = "loop"
    /\ task[d].idx <= Len(data[d].items)
    /\ WebIteration(data[d].items, task[d].idx, task[d], readme, archive).fetched
    /\ WebItem(d, readme)

\* C30: a README request that throws or is answered with a status outside
\* 2xx does not end the scan, assigns no website to the record, and adds one
\* to the repository's websiteFails
C30_ReadmeErrorCounted ==
    [][\A d \in Discoverers : \A readme \in {ReadmeThrows, ReadmeNotOk} :
          ReadmeStep(d, readme) =>
              LET i == task[d].idx
                  repo == data[d].items[i].githubUrl.repo IN
              /\ pc'[d] = "loop"
              /\ Falsy(data'[d].items[i], "website")
              /\ FailsOf(RepoStateOf(task'[d].scanState, repo))
                     = FailsOf(RepoStateOf(task[d].scanState, repo)) + 1]_vars


----------------------------------------------------------------------------
(* The refresh under concurrent runs: every listing request kicks a        *)
(* refresh of its own through waitUntil, beside the one of the             *)
(* orchestrator.                                                           *)

ConcurrentRefreshers == {"g1", "g2"}

\* one repository record whose snapshot counts no, one or two not-found
\* results so far
CountingRegistries ==
    {[version |-> 10, writeVersion |-> 0,
      items |-> <<[id |-> 1, githubUrl |-> [type |-> "repo"], status |-> "in-progress",
                   githubData |-> gd]>>] :
        gd \in {[type |-> "repo", state |-> "active", merged |-> FALSE, fetchedAt |-> 0],
                [type |-> "repo", state |-> "active", merged |-> FALSE, fetchedAt |-> 0,
                 _notFoundCount |-> 1],
                [type |-> "repo", state |-> "active", merged |-> FALSE, fetchedAt |-> 0,
                 _notFoundCount |-> 2]}}

InitRefreshers ==
    /\ kv \in CountingRegistries
    /\ pc = [p \in ConcurrentRefreshers |-> "idle"]
    /\ data = [p \in ConcurrentRefreshers |-> Null]
    /\ loaded = [p \in ConcurrentRefreshers |-> 0]
    /\ attempt = [p \in ConcurrentRefreshers |-> 0]
    /\ result = [p \in ConcurrentRefreshers |-> "none"]
    /\ task = [p \in ConcurrentRefreshers |-> Null]
    /\ reqs = 0
    /\ scanState = Null
    /\ archive = <<>>
    /\ events = <<>>
    /\ now = 1
    /\ listed = <<>>
    /\ feed = <<>>
    /\ scanMeta = Null
    /\ probe = Null

NextRefreshers == \E g \in ConcurrentRefreshers : RefreshStep(g)

SpecRefreshers == InitRefreshers /\ [][NextRefreshers]_vars

\* the stored snapshot of a record is archived
StoredArchived(blob, i) == ~StateNotArchived(blob.items[i])

\* the step is the save of a refresh run
RefreshSaveStep(g) == pc[g] = "put" /\ pc'[g] = "emit"

\* C28: the refresh archives a stored snapshot for not-found results only as
\* the third consecutive one: a save of the refresh that stores a snapshot
\* archived with a not-found count finds the record stored with a count of
\* two, so neither fewer than three results nor results before a successful
\* refresh (which stores the count zero) archive it
C28_ArchiveAtThirdNotFound ==
    [][\A g \in DOMAIN pc : RefreshSaveStep(g) =>
          \A i \in DOMAIN kv'.items :
              (/\ i \in DOMAIN kv.items
               /\ StoredArchived(kv', i) /\ ~StoredArchived(kv, i)
               /\ NotFoundCountOf(kv'.items[i]) > 0)
                  => (NotFoundCountOf(kv.items[i]) = 2
                      /\ NotFoundCountOf(kv'.items[i]) = 3)]_vars


----------------------------------------------------------------------------
(* scanGithubContributors and scanGithubEvents: the cooldown of a          *)
(* repository per scan kind.  Both functions read the scan state, walk the *)
(* records, ask GitHub for each repository whose cooldown has elapsed,     *)
(* save the registry when a record changed and put the scan state last.    *)
(* The clock counts quarters of an hour.                                   *)

GhScanners == {"s1"}

ScanKinds == {"contributors", "events"}

GITHUB_SCAN_COOLDOWN_MS == 1

\* the cooldown after three or more consecutive failures, `60 * 60 * 1000`
GithubBackoffMs == 4

\* requests to GitHub in one behaviour
MaxCalls == 4

\* the clock stops here
GhMaxClock == 10

\* `await env.ROADMAP_KV.get(GITHUB_SCAN_KEY, 'json') || { version: 1, repos: {} }`
GhScanState(raw) == IF raw = Null THEN [version |-> 1, repos |-> <<>>] ELSE raw

\* contributorFails, eventFails
FailsField(kind) == IF kind = "contributors" THEN "contributorFails" ELSE "eventFails"

\* `repoState.contributorFails || 0`, `repoState.eventFails || 0`
KindFails(repoState, kind) ==
    IF Has(repoState, FailsField(kind)) THEN repoState[FailsField(kind)] ELSE 0

\* `repoState.contributors ? new Date(repoState.contributors).getTime() : 0`
KindLastScan(repoState, kind) == IF Has(repoState, kind) THEN repoState[kind] ELSE 0

\* the cooldown of a repository for a scan kind
KindCooldown(repoState, kind) ==
    IF KindFails(repoState, kind) >= 3 THEN GithubBackoffMs ELSE GITHUB_SCAN_COOLDOWN_MS

\* `scanState.repos[repoPath] = { ...repoState, <kind>: <now>, <kind>Fails }`
KindStamp(scan, repoPath, repoState, kind, tnow, fails) ==
    PutRepo(scan, repoPath,
            SetField(SetField(repoState, kind, tnow), FailsField(kind), fails))

\* GitHub's answers: a failure (not ok, a body that is no array, a thrown
\* request), or the agents of the contributors, or the merged pull requests
GhFailure == [fail |-> TRUE]
GhAnswers(kind) ==
    IF kind = "contributors"
    THEN {GhFailure, [agents |-> {}], [agents |-> {"agent1"}]}
    ELSE {GhFailure, [pulls |-> <<>>],
          [pulls |-> <<[url |-> "pull/1", merged_at |-> 2, agent |-> "agent1"]>>]}

\* the contributors of the answer added to the record
WithContributors(item, answer) ==
    [item EXCEPT !.contributors = @ \cup answer.agents]

\* a scan that takes every pull request it is answered
TakesPullAlways(item, pr, lastScan) == TRUE

\* the pull request is taken as a deliverable: merged since the last scan and
\* not among the deliverables yet
TakesPull(item, pr, lastScan) ==
    /\ ~(lastScan > 0 /\ pr.merged_at <= lastScan)
    /\ \A i \in DOMAIN item.deliverables : item.deliverables[i].url # pr.url

\* the deliverables of the answer pushed, their authors added as contributors
WithPulls(item, answer, lastScan) ==
    IF answer.pulls # <<>> /\ TakesPull(item, answer.pulls[1], lastScan)
    THEN addContributor([item EXCEPT !.deliverables =
                            Append(@, [url |-> answer.pulls[1].url,
                                       addedBy |-> answer.pulls[1].agent])],
                        answer.pulls[1].agent)
    ELSE item

\* the record after a successful answer
Scanned(item, kind, answer, lastScan) ==
    IF kind = "contributors" THEN WithContributors(item, answer)
    ELSE WithPulls(item, answer, lastScan)

\* `changed = true` of the scan kind for the answer
ScanChanged(item, kind, answer, lastScan) ==
    IF kind = "contributors" THEN WithContributors(item, answer) # item
    ELSE WithPulls(item, answer, lastScan) # item

\* the record is skipped before the cooldown test
NotScanned(item) ==
    \/ Falsy(item, "githubUrl")
    \/ item.githubUrl.type # "repo"
    \/ StateArchived(item)

\* the scan up to the loop: the scan state, getData, `now`
GhStart(s, kind, dt) ==
    /\ pc[s] = "idle"
    /\ now + dt <= GhMaxClock
    /\ now' = now + dt
    /\ data' = [data EXCEPT ![s] = getData(kv)]
    /\ task' = [task EXCEPT ![s] = [kind |-> kind, now |-> now', idx |-> 1,
                                     changed |-> FALSE,
                                     scanState |-> GhScanState(scanState),
                                     calls |-> task[s].calls]]
    /\ pc' = [pc EXCEPT ![s] = "loop"]
    /\ result' = [result EXCEPT ![s] = "pending"]
    /\ UNCHANGED <<kv, loaded, attempt, reqs, events, listed, scanFrame>>

\* a record the loop passes by: no repository, an archived one, or the
\* cooldown has not elapsed
GhSkip(s) ==
    /\ pc[s] = "loop"
    /\ task[s].idx <= Len(data[s].items)
    /\ LET item == data[s].items[task[s].idx] IN
        \/ NotScanned(item)
        \/ LET repoState == RepoStateOf(task[s].scanState, item.githubUrl.repo) IN
            task[s].now - KindLastScan(repoState, task[s].kind)
                < KindCooldown(repoState, task[s].kind)
    /\ task' = [task EXCEPT ![s].idx = @ + 1]
    /\ UNCHANGED <<kv, pc, data, loaded, attempt, result, reqs, events, now, listed,
                   scanFrame>>

\* the request for a record whose cooldown has elapsed, with GitHub's answer
GhItem(s, answer) ==
    /\ pc[s] = "loop"
    /\ task[s].idx <= Len(data[s].items)
    /\ Len(task[s].calls) < MaxCalls
    /\ answer \in GhAnswers(task[s].kind)
    /\ LET item == data[s].items[task[s].idx]
           kind == task[s].kind IN
        /\ ~NotScanned(item)
        /\ \E repoState \in {RepoStateOf(task[s].scanState, item.githubUrl.repo)} :
            /\ task[s].now - KindLastScan(repoState, kind) >= KindCooldown(repoState, kind)
            /\ IF answer = GhFailure
               THEN /\ task' = [task EXCEPT
                        ![s].idx = @ + 1,
                        ![s].calls = Append(@, [repo |-> item.githubUrl.repo, kind |-> kind,
                                                at |-> task[s].now, ok |-> FALSE]),
                        ![s].scanState = KindStamp(@, item.githubUrl.repo, repoState, kind,
                                                   task[s].now, KindFails(repoState, kind) + 1)]
                    /\ UNCHANGED <<data, events>>
               ELSE \E last \in {KindLastScan(repoState, kind)} :
                    /\ data' = [data EXCEPT ![s].items[task[s].idx] =
                                    Scanned(item, kind, answer, last)]
                    /\ events' = IF kind = "events" /\ ScanChanged(item, kind, answer, last)
                                 THEN recordEvent(events, [type |-> "item.deliverable_added",
                                                           itemId |-> item.id,
                                                           url |-> answer.pulls[1].url])
                                 ELSE events
                    /\ task' = [task EXCEPT
                        ![s].idx = @ + 1,
                        ![s].changed = @ \/ ScanChanged(item, kind, answer, last),
                        ![s].calls = Append(@, [repo |-> item.githubUrl.repo, kind |-> kind,
                                                at |-> task[s].now, ok |-> TRUE]),
                        ![s].scanState = KindStamp(@, item.githubUrl.repo, repoState, kind,
                                                   task[s].now, 0)]
    /\ UNCHANGED <<kv, pc, loaded, attempt, result, reqs, now, listed, scanFrame>>

\* after the loop: `if (changed) await saveRetry(env, data)`
GhEnd(s) ==
    /\ pc[s] = "loop"
    /\ task[s].idx > Len(data[s].items)
    /\ IF task[s].changed
       THEN /\ pc' = [pc EXCEPT ![s] = "check"]
            /\ attempt' = [attempt EXCEPT ![s] = 1]
       ELSE /\ pc' = [pc EXCEPT ![s] = "scanput"]
            /\ UNCHANGED attempt
    /\ UNCHANGED <<kv, data, loaded, result, reqs, task, events, now, listed, scanFrame>>

\* a saveRetry that gives up silently: the scan goes on to put its scan state
GhCheckGivesUp(s) ==
    /\ pc[s] = "check"
    /\ IF SaveConflict(data[s], kv)
       THEN IF LastAttempt(attempt[s])
            THEN /\ pc' = [pc EXCEPT ![s] = "scanput"]
                 /\ result' = [result EXCEPT ![s] = "failed"]
                 /\ UNCHANGED <<data, task>>
            ELSE /\ pc' = [pc EXCEPT ![s] = "backoff"]
                 /\ UNCHANGED <<result, data, task>>
       ELSE /\ pc' = [pc EXCEPT ![s] = "put"]
            /\ UNCHANGED <<result, data, task>>
    /\ UNCHANGED <<kv, loaded, attempt, reqs, events, now, listed, scanFrame>>

\* saveRetry's version test; the last conflict is rethrown out of the scan,
\* before the scan state is put
GhCheck(s) ==
    /\ pc[s] = "check"
    /\ IF SaveConflict(data[s], kv)
       THEN IF LastAttempt(attempt[s])
            THEN /\ pc' = [pc EXCEPT ![s] = "idle"]
                 /\ result' = [result EXCEPT ![s] = "failed"]
                 /\ data' = [data EXCEPT ![s] = Null]
                 /\ task' = [task EXCEPT ![s] = [calls |-> task[s].calls]]
            ELSE /\ pc' = [pc EXCEPT ![s] = "backoff"]
                 /\ UNCHANGED <<result, data, task>>
       ELSE /\ pc' = [pc EXCEPT ![s] = "put"]
            /\ UNCHANGED <<result, data, task>>
    /\ UNCHANGED <<kv, loaded, attempt, reqs, events, now, listed, scanFrame>>

\* saveRetry after the backoff
GhReread(s) ==
    /\ pc[s] = "backoff"
    /\ data' = [data EXCEPT ![s].writeVersion = WriteVersionOf(kv)]
    /\ attempt' = [attempt EXCEPT ![s] = @ + 1]
    /\ pc' = [pc EXCEPT ![s] = "check"]
    /\ UNCHANGED <<kv, loaded, result, reqs, task, events, now, listed, scanFrame>>

\* saveData's put inside saveRetry
GhPut(s) ==
    /\ pc[s] = "put"
    /\ kv' = SaveBlob(data[s])
    /\ pc' = [pc EXCEPT ![s] = "scanput"]
    /\ UNCHANGED <<data, loaded, attempt, result, reqs, task, events, now, listed, scanFrame>>

\* `ROADMAP_KV.put(GITHUB_SCAN_KEY, ...)` and the return
GhScanPut(s) ==
    /\ pc[s] = "scanput"
    /\ scanState' = task[s].scanState
    /\ pc' = [pc EXCEPT ![s] = "idle"]
    /\ result' = [result EXCEPT ![s] = "scanned"]
    /\ data' = [data EXCEPT ![s] = Null]
    /\ task' = [task EXCEPT ![s] = [calls |-> task[s].calls]]
    /\ UNCHANGED <<kv, loaded, attempt, reqs, events, now, listed, archive, mentionFrame>>

\* one repository record without contributors, without deliverables or with
\* one added by hand
GhRegistries ==
    {[version |-> 10, writeVersion |-> 0,
      items |-> <<[id |-> 1, githubUrl |-> [type |-> "repo", repo |-> "aibtcdev/one"],
                   githubData |-> [type |-> "repo", state |-> "active"],
                   contributors |-> {}, deliverables |-> ds]>>] :
        ds \in {<<>>, <<[url |-> "site/1", addedBy |-> "agent0"]>>}}

\* no repository was scanned yet; the clock is past every cooldown
InitGh ==
    /\ kv \in GhRegistries
    /\ scanState = Null
    /\ pc = [p \in GhScanners |-> "idle"]
    /\ data = [p \in GhScanners |-> Null]
    /\ loaded = [p \in GhScanners |-> 0]
    /\ attempt = [p \in GhScanners |-> 0]
    /\ result = [p \in GhScanners |-> "none"]
    /\ task = [p \in GhScanners |-> [calls |-> <<>>]]
    /\ reqs = 0
    /\ archive = <<>>
    /\ events = <<>>
    /\ now = GithubBackoffMs
    /\ listed = <<>>
    /\ feed = <<>>
    /\ scanMeta = Null
    /\ probe = Null

GhStep(s) ==
    \/ \E kind \in ScanKinds, dt \in {0, 1} : GhStart(s, kind, dt)
    \/ GhSkip(s)
    \/ \E answer \in UNION {GhAnswers(k) : k \in ScanKinds} : GhItem(s, answer)
    \/ GhEnd(s)
    \/ GhCheck(s)
    \/ GhReread(s)
    \/ GhPut(s)
    \/ GhScanPut(s)

NextGh ==
    \/ \E s \in GhScanners : GhStep(s)
    \/ OtherCommit

SpecGh == InitGh /\ [][NextGh]_vars

RECURSIVE FailsBefore(_, _, _)
\* the consecutive failures of a scan kind up to request j of the history
FailsBefore(calls, j, kind) ==
    IF j = 0 THEN 0
    ELSE IF calls[j].kind # kind THEN FailsBefore(calls, j - 1, kind)
    ELSE IF calls[j].ok THEN 0
    ELSE 1 + FailsBefore(calls, j - 1, kind)

\* request k is the next of its kind after request j
NextOfKind(calls, j, k) ==
    /\ j < k
    /\ calls[j].kind = calls[k].kind /\ calls[j].repo = calls[k].repo
    /\ \A m \in (j + 1)..(k - 1) : calls[m].kind # calls[j].kind

\* C29: between two requests for a repository by one scan kind the kind's
\* cooldown passes: fifteen minutes, and one hour once the requests of the
\* kind failed three or more times in a row; a success ends the row
C29_CooldownBetweenAttempts ==
    \A s \in DOMAIN task : Has(task[s], "calls") =>
        LET calls == task[s].calls IN
        \A j, k \in DOMAIN calls : NextOfKind(calls, j, k) =>
            calls[k].at - calls[j].at >=
                (IF FailsBefore(calls, j, calls[j].kind) >= 3
                 THEN GithubBackoffMs ELSE GITHUB_SCAN_COOLDOWN_MS)


----------------------------------------------------------------------------
(* discoverWebsites: the cooldown of a cleared claim *)

\* the record at hand is a repository record that is not archived
LiveRepo(item) ==
    /\ ~Falsy(item, "githubUrl")
    /\ item.githubUrl.type = "repo"
    /\ ~StateArchived(item)

\* the iteration at hand clears the claim of its record
ClearStep(d) ==
    /\ pc[d] = "loop"
    /\ task[d].idx <= Len(data[d].items)
    /\ ShouldClear([data[d].items EXCEPT ![task[d].idx] = SyncHomepage(@)], task[d].idx)
    /\ pc'[d] = "loop"
    /\ task'[d].idx = task[d].idx + 1

----------------------------------------------------------------------------
(* scanGithubEvents: the deliverables it adds *)

\* the URLs of the deliverables are pairwise distinct
DistinctUrls(ds) == \A i, j \in DOMAIN ds : ds[i].url = ds[j].url => i = j

\* the registries at hand: the stored one and the copies of the scans
GhBlobs == {kv} \cup {data[s] : s \in {p \in DOMAIN data : data[p] # Null}}

----------------------------------------------------------------------------
(* getData: the lazy migrations.  An invocation loads the stored registry, *)
(* saves what it loaded, and loads again.                                   *)

Loaders == {"l1"}

\* the fields the migrations add to a record
MigratedFields ==
    {"claimedBy", "deliverables", "ratings", "reputation", "goals", "mentions",
     "leader", "searchTerms", "website"}

\* a record with the fields added up to schema version v
RecordUpTo(v, base, claimedBy, leader, website) ==
    LET a5 == IF v >= 5
              THEN base @@ [claimedBy |-> claimedBy, deliverables |-> <<>>, ratings |-> <<>>,
                            reputation |-> [average |-> 0, count |-> 0], goals |-> <<>>,
                            mentions |-> [count |-> 0]]
              ELSE base
        a6 == IF v >= 6 THEN a5 @@ [leader |-> leader] ELSE a5
        a7 == IF v >= 7 THEN a6 @@ [searchTerms |-> <<>>] ELSE a6
    IN  IF v >= 8 THEN a7 @@ [website |-> website] ELSE a7

\* the records stored at schema version v: the fields added up to v are
\* there; a record written ahead of the version holds the later ones too,
\* and one written before version 5 may hold claimedBy alone
StoredRecords(v) ==
    LET Bases == {[id |-> 1, githubData |-> [state |-> "active", homepage |-> hp]] :
                     hp \in {Null, SiteUrl}}
                 \cup {[id |-> 1, githubData |-> [state |-> "active", homepage |-> Null],
                        founder |-> [btcAddress |-> "bc1f"]]}
        Claimers == {Null, [btcAddress |-> "bc1c"]}
        Leaders == {Null, [btcAddress |-> "bc1l"]}
        Claims == {Null, [url |-> SiteUrl, source |-> "homepage"],
                   [url |-> SiteUrl, source |-> "readme"]}
    IN  {RecordUpTo(w, b, c, l, s) :
            w \in {v, 10}, b \in Bases, c \in Claimers, l \in Leaders, s \in Claims}
        \cup (IF v < 5 THEN {b @@ [claimedBy |-> c] : b \in Bases, c \in Claimers} ELSE {})

\* the schema versions a registry is stored at
StoredVersions == {1, 4, 5, 6, 7, 8, 9, 10}

\* the stored registries: none, or one record at a schema version
LoadRegistries ==
    {Null} \cup
    {[version |-> v, items |-> <<>>] : v \in StoredVersions} \cup
    UNION {{[version |-> v, writeVersion |-> 0, items |-> <<r>>] : r \in StoredRecords(v)} :
              v \in StoredVersions}

\* getData of an invocation; what it read is kept beside what it returns
LoadRegistry(l) ==
    /\ pc[l] \in {"idle", "saved"}
    /\ data' = [data EXCEPT ![l] = getData(kv)]
    /\ task' = [task EXCEPT ![l] = [stored |-> kv]]
    /\ pc' = [pc EXCEPT ![l] = "loaded"]
    /\ UNCHANGED <<kv, loaded, attempt, result, reqs, events, now, listed, scanFrame>>

\* saveData of what was loaded
SaveRegistry(l) ==
    /\ pc[l] = "loaded"
    /\ reqs < MaxRequests
    /\ reqs' = reqs + 1
    /\ kv' = SaveBlob(data[l])
    /\ pc' = [pc EXCEPT ![l] = "saved"]
    /\ UNCHANGED <<data, loaded, attempt, result, task, events, now, listed, scanFrame>>

InitLoad ==
    /\ kv \in LoadRegistries
    /\ pc = [p \in Loaders |-> "idle"]
    /\ data = [p \in Loaders |-> Null]
    /\ loaded = [p \in Loaders |-> 0]
    /\ attempt = [p \in Loaders |-> 0]
    /\ result = [p \in Loaders |-> "none"]
    /\ task = [p \in Loaders |-> Null]
    /\ reqs = 0
    /\ events = <<>>
    /\ now = 1
    /\ listed = <<>>
    /\ scanState = Null
    /\ archive = <<>>
    /\ feed = <<>>
    /\ scanMeta = Null
    /\ probe = Null

NextLoad == \E l \in Loaders : LoadRegistry(l) \/ SaveRegistry(l)

SpecLoad == InitLoad /\ [][NextLoad]_vars

\* the schema version of a stored registry, 1 when nothing is stored
StoredVersion(blob) == IF blob = Null THEN 1 ELSE blob.version

----------------------------------------------------------------------------
(* The contributors of a stored record *)

\* the contributors of the record with the id in a registry
ContributorsOf(blob, id) ==
    LET items == ItemsOf(blob) IN items[FindIndex(items, id)].contributors

\* C34: a contributor of a stored record stays a contributor as long as the
\* record is stored, under every interleaving of requests and scans (the
\* contributors of a record are a set of account identifiers, held once each)
C34_ContributorsKept ==
    [][\A id \in IdsOf(ItemsOf(kv)) \cap IdsOf(ItemsOf(kv')) :
          ContributorsOf(kv, id) \subseteq ContributorsOf(kv', id)]_vars

----------------------------------------------------------------------------
(* _handlePut, actions add_goal and complete_goal, in succession *)

\* `item.goals.find(g => g.id === body.goalId)` as an index, 0 when none
GoalIndex(goals, goalId) ==
    IF \E i \in DOMAIN goals : goals[i].id = goalId
    THEN CHOOSE i \in DOMAIN goals :
            goals[i].id = goalId /\ \A j \in 1..(i - 1) : goals[j].id # goalId
    ELSE 0

\* action 'add_goal' of this specification
HandleAddGoal(w, id, title) == HandleFrame(w) /\ AddGoal(w, id, title)

\* action 'complete_goal': leader only, then the goalId (0 stands for a body
\* without one), then the goal; `completed` is toggled
HandleCompleteGoal(w, id, goalId) ==
    /\ HandleFrame(w)
    /\ LET d == getData(kv)
           idx == FindIndex(d.items, id) IN
        /\ idx # 0
        /\ IF Falsy(d.items[idx], "leader") \/ d.items[idx].leader.btcAddress # w
           THEN /\ result' = [result EXCEPT ![w] = [status |-> "403"]]
                /\ task' = [task EXCEPT ![w] = [action |-> "forbidden", id |-> id,
                                                n |-> reqs', input |-> goalId]]
                /\ UNCHANGED <<pc, data, loaded>>
           ELSE IF goalId = 0 THEN Reject(w, "complete_goal", id, goalId)
           ELSE IF GoalIndex(d.items[idx].goals, goalId) = 0
           THEN /\ result' = [result EXCEPT ![w] = [status |-> "404"]]
                /\ task' = [task EXCEPT ![w] = [action |-> "complete_goal", id |-> id,
                                                n |-> reqs', input |-> goalId]]
                /\ UNCHANGED <<pc, data, loaded>>
           ELSE Accept(w, [d EXCEPT !.items[idx] =
                            Touched([@ EXCEPT
                                !.goals[GoalIndex(d.items[idx].goals, goalId)].completed = ~@],
                                    w)],
                       "complete_goal", id, goalId)

GoalTitles == {<<"G">>, <<"H">>, <<" ">>}

GoalStep(w) ==
    \/ \E t \in GoalTitles : HandleAddGoal(w, 1, t)
    \/ \E g \in 0..MaxRequests : HandleCompleteGoal(w, 1, g)
    \/ HandleCheck(w)
    \/ HandleSave(w)

NextGoals == \E w \in Writers : GoalStep(w)

SpecGoals == InitInput /\ [][NextGoals]_vars

\* the step is a request of w
GoalRequest(w) == reqs' = reqs + 1 /\ task'[w] # Null /\ task'[w].n = reqs'

\* the step is the save of an add_goal request of w
AddGoalSaved(w) ==
    pc[w] = "put" /\ pc'[w] = "idle" /\ task[w].action = "add_goal"

\* C35: whatever add_goal and complete_goal requests were made, a stored
\* record has at most one goal; the save of an add_goal leaves every goal the
\* record held in its goalHistory; no step takes an entry from goalHistory;
\* and a request of an account that is not the leader is answered 403 and
\* saves nothing
C35_GoalsArchived ==
    [][/\ \A i \in DOMAIN kv'.items : Len(kv'.items[i].goals) <= 1
       /\ \A i \in DOMAIN kv.items :
              IsPrefix(GoalHistoryOf(kv.items[i]), GoalHistoryOf(kv'.items[i]))
       /\ \A w \in Writers :
           /\ AddGoalSaved(w) =>
                 \A i \in DOMAIN kv.items :
                     Range(kv.items[i].goals) \subseteq Range(GoalHistoryOf(kv'.items[i]))
           /\ (GoalRequest(w) /\ LeaderOf(kv, 1).btcAddress # w) =>
                 /\ result'[w].status = "403"
                 /\ pc'[w] = "idle" /\ kv' = kv /\ data'[w] = Null]_vars

\* a goal was added, completed and replaced by a second goal
C35_Witness ==
    /\ Len(kv.items[1].goals) = 1
    /\ kv.items[1].goals[1].id = 2
    /\ Len(GoalHistoryOf(kv.items[1])) = 1
    /\ GoalHistoryOf(kv.items[1])[1].completed

----------------------------------------------------------------------------
(* scanForMentions: what a full reset counts *)

\* the entries of the archive and of the live feed that mention the record
KnownMentions(id) ==
    {k \in TimestampsOf(archive) \cup (feed.lo..feed.hi) :
        MessageMatches(EntryOf(k), [id |-> id])}

\* C36: when a full-reset mention scan has returned as scanned, the mention
\* count of every record is the number of the entries of the archive and of
\* the live feed that mention it, also when the feed shows no message
C36_ResetCountsKnown ==
    \A m \in DOMAIN result :
        (pc[m] = "idle" /\ AfterReset(m)) =>
            \A id \in ItemIds : MentionCount(kv, id) = Cardinality(KnownMentions(id))

----------------------------------------------------------------------------
(* The scan state after an abandoned save *)

\* the step abandons the registry save of the scan
SaveAbandoned(s) == pc[s] = "check" /\ result'[s] = "failed" /\ result[s] # "failed"

\* the cooldown of the record's repository has elapsed for the scan kind,
\* by the stored scan state
ScanDue(scan, item, kind, tnow) ==
    LET repoState == RepoStateOf(GhScanState(scan), item.githubUrl.repo) IN
    tnow - KindLastScan(repoState, kind) >= KindCooldown(repoState, kind)

----------------------------------------------------------------------------
(* discoverWebsites: the priority of the sources *)

SourceNames == <<"homepage", "description", "readme", "deliverable", "message">>

\* what each source yields for the record, in the order of priority; a README
\* request that gave no text yields nothing
Yields(item, claimedUrls, readme, messages) ==
    <<IF HomepageScores(HomepageOf(item)) THEN HomepageOf(item) ELSE Null,
      extractUrlFromDescription(TitleOf(item), claimedUrls),
      IF Has(readme, "text") THEN extractUrlFromReadme(readme.text, claimedUrls) ELSE Null,
      DeliverableUrl(item),
      extractUrlFromMessages(messages, item)>>

\* the first source that yields a URL, 0 when none does
FirstYield(ys) ==
    IF \A k \in DOMAIN ys : ys[k] = Null THEN 0
    ELSE CHOOSE k \in DOMAIN ys : ys[k] # Null /\ \A j \in 1..(k - 1) : ys[j] = Null

\* the claim the priority of the sources gives the record: the URL of the
\* first source that yields one, unless another record claims it
FirstHit(item, claimedUrls, readme, messages) ==
    LET ys == Yields(item, claimedUrls, readme, messages)
        k == FirstYield(ys) IN
    IF k = 0 \/ ys[k] \in claimedUrls THEN Null
    ELSE [url |-> ys[k], source |-> SourceNames[k]]

\* what the iteration at hand leaves of its record, given the answer of the
\* README request: a record that holds a valid claim is left as the homepage
\* sync left it, a record without a claim whose repository is due gets the
\* first hit
PriorityKept(d, readme) ==
    LET i == task[d].idx
        synced == SyncHomepage(data[d].items[i])
        clear == ShouldClear([data[d].items EXCEPT ![i] = synced], i)
        item == IF clear THEN [synced EXCEPT !.website = Null] ELSE synced
        claimed == IF clear THEN task[d].claimedUrls \ {synced.website.url}
                   ELSE task[d].claimedUrls
        scan == IF clear THEN ForgetScan(task[d].scanState, synced) ELSE task[d].scanState
    IN  IF ~Falsy(item, "website")
        THEN data'[d].items[i] = item /\ task'[d].scanState = task[d].scanState
        ELSE LET repoState == RepoStateOf(scan, item.githubUrl.repo) IN
             (LiveRepo(item) /\ task[d].now - LastScanOf(repoState) >= CooldownOf(repoState))
             => data'[d].items[i].website = FirstHit(item, claimed, readme, archive)

\* C38: a record without a claim gets its candidate from the first of the
\* sources homepage, description, README, deliverables, archived messages
\* that yields one, whatever the README request answered, and a record with
\* a valid claim is not evaluated
C38_FirstSourceWins ==
    [][\A d \in Discoverers : \A readme \in ReadmeAnswers :
          WebItem(d, readme) => PriorityKept(d, readme)]_vars

----------------------------------------------------------------------------
(* scanGithubEvents: the deliverable_added events *)

\* the positions of the deliverable_added events in the audit log
AddedEvents == {k \in DOMAIN events : events[k].type = "item.deliverable_added"}

\* the stored registry holds the deliverable of the event
Persisted(ev) ==
    \E i \in DOMAIN kv.items :
        /\ kv.items[i].id = ev.itemId
        /\ \E j \in DOMAIN kv.items[i].deliverables :
              kv.items[i].deliverables[j].url = ev.url

\* C39: once no event scan is running, every deliverable_added event of the
\* audit log is about a deliverable that the stored registry holds, and the
\* log never holds two deliverable_added events for the same pull request of
\* the same record
C39_EventsOnlyForPersisted ==
    /\ (\A s \in GhScanners : pc[s] = "idle")
           => \A k \in AddedEvents : Persisted(events[k])
    /\ \A k, l \in AddedEvents :
           (events[k].itemId = events[l].itemId /\ events[k].url = events[l].url) => k = l

----------------------------------------------------------------------------
(* discoverWebsites: the claims a completed run leaves *)

\* every claim of the registry, as getData loads it, scores above zero
ClaimsScore(blob) ==
    \A i \in DOMAIN getData(blob).items :
        LET item == getData(blob).items[i] IN
        ~Falsy(item, "website") => isDeploymentUrl(item.website.url) > 0

\* C40: when a run of discovery has returned, every website claim of the
\* stored registry has a URL that scores above zero, also where the stored
\* record had a claim that the load migration took from a homepage that does
\* not score, or a homepage claim that the run moved to the new homepage
C40_ClaimsScoreAfterRun ==
    \A d \in Discoverers :
        (pc[d] = "done" /\ result[d] = "discovered") => ClaimsScore(kv)

\* a run has returned after a save: the first record's homepage does not
\* score and the record holds no claim, the second record holds a homepage
\* claim on its homepage
C40_Witness ==
    \E d \in Discoverers :
        /\ pc[d] = "done" /\ result[d] = "discovered"
        /\ kv.version = 10 /\ kv.writeVersion > 0
        /\ HomepageOf(kv.items[1]) = SourceUrl
        /\ kv.items[1].website = Null
        /\ kv.items[2].website = [url |-> SiteUrl, source |-> "homepage"]
        /\ HomepageOf(kv.items[2]) = SiteUrl

====
